---- MODULE Spec2Model ----
(***************************************************************************)
(* Model of the document-forensics client: the response normalizer         *)
(* (validateAndFixResponse), the credential resolver (getEffectiveApiKey,  *)
(* validateApiKey) and the provider dispatcher (analyzeDocument).          *)
(*                                                                         *)
(* JavaScript values are tagged records [t |-> type, v |-> payload].       *)
(* Scores are fixed-point: the JavaScript number 1.0 is the integer Unit.  *)
(***************************************************************************)
EXTENDS Integers, Sequences, FiniteSets, TLC

VARIABLES
    input,      \* normalizer: the parsed response as the provider sent it
    response,   \* normalizer: the same object, as it is now (the call writes to it)
    result,     \* normalizer: what validateAndFixResponse(response) returned
    resultAfter,\* normalizer: the result object as the second call left it
    again,      \* normalizer: what validateAndFixResponse(result) returned
    npc,        \* normalizer: "start", "once", "twice"
    provider,   \* the provider the credential is resolved for
    configApiKey, \* the user-supplied credential of that provider (config.apiKeys)
    env,        \* import.meta.env: the deployment-level defaults
    effectiveApiKey, \* what getEffectiveApiKey returned
    kpc,        \* resolver: "start", "resolved"
    pc,         \* analyzeDocument: where the invocation is
    encoded,    \* analyzeDocument: the image file has been handed to the FileReader
    calls,      \* analyzeDocument: network calls issued so far
    options,    \* analyzeDocument: options.model, .azureDeployment, .parameters
    request,    \* analyzeDocument: the request sent, endpoint and serialized body
    reply,      \* analyzeDocument: what the provider answered
    outcome,    \* analyzeDocument: the AnalysisResult returned or the Error thrown
    route,      \* the page mounted: "/" (DocumentForensics) or "/config" (ModelConfiguration)
    hookVersion, \* which of the two useModelConfig sources the page is built with
    selectedFile, \* DocumentForensics: usePersistedFileState
    previewUrl,
    reads,      \* files whose FileReader has not called onloadend yet
    analysisResult, \* DocumentForensics: usePersistedState('forensics_analysisResult')
    userContext,
    isLoading,
    error,
    config,     \* DocumentForensics: useModelConfig().config
    draft,      \* ModelConfiguration: its config state
    inFlight,   \* analyzeDocument calls the page is awaiting
    started,    \* how many analyses Analyze has started
    superseded, \* requests that were in flight when a file was selected or all data cleared
    localStorage,
    sessionStorage

normVars == <<input, response, result, resultAfter, again, npc>>

keyVars == <<provider, configApiKey, env, effectiveApiKey, kpc>>

callVars == <<pc, encoded, calls, options, request, reply, outcome>>

pageVars == <<route, hookVersion, selectedFile, previewUrl, reads, analysisResult,
              userContext, isLoading, error, config, draft, inFlight, started,
              superseded, localStorage, sessionStorage>>

vars == <<input, response, result, resultAfter, again, npc,
          provider, configApiKey, env, effectiveApiKey, kpc,
          pc, encoded, calls, options, request, reply, outcome,
          route, hookVersion, selectedFile, previewUrl, reads, analysisResult,
          userContext, isLoading, error, config, draft, inFlight, started,
          superseded, localStorage, sessionStorage>>

-----------------------------------------------------------------------------
(* JavaScript values *)

Undef == [t |-> "undefined"]
Null == [t |-> "null"]
Num(n) == [t |-> "number", v |-> n]
Str(s) == [t |-> "string", v |-> s]
Arr(seq) == [t |-> "array", v |-> seq]
Obj(rec) == [t |-> "object", v |-> rec]
\* a thrown exception, as the outcome of a call
Throw(kind) == [t |-> "throw", v |-> kind]

IsThrow(x) == x.t = "throw"
IsNullish(x) == x.t \in {"null", "undefined"}
IsNumber(x) == x.t = "number"
IsArray(x) == x.t = "array"

\* ToBoolean: undefined, null, 0 and "" are falsy
Truthy(x) ==
    CASE x.t \in {"undefined", "null"} -> FALSE
      [] x.t = "number" -> x.v # 0
      [] x.t = "string" -> x.v # ""
      [] OTHER -> TRUE

\* a || b
OrElse(a, b) == IF Truthy(a) THEN a ELSE b

\* o.k for a non-nullish o (a nullish o throws: the caller checks IsNullish)
Get(o, k) ==
    IF o.t = "object" /\ k \in DOMAIN o.v THEN o.v[k] ELSE Undef

\* o?.k
GetOpt(o, k) == IF IsNullish(o) THEN Undef ELSE Get(o, k)

\* o.k = val on an object
Put(o, k, val) ==
    Obj([f \in (DOMAIN o.v) \cup {k} |-> IF f = k THEN val ELSE o.v[f]])

\* Array.prototype.includes (SameValueZero on the model's values)
Includes(seq, x) == \E i \in 1..Len(seq) : seq[i] = x

Min2(a, b) == IF a < b THEN a ELSE b
Max2(a, b) == IF a > b THEN a ELSE b

\* the number 1.0
Unit == 100

\* Math.max(0, Math.min(1, n))
Clamp01(n) == Max2(0, Min2(Unit, n))

\* typeof x === 'number' ? Math.max(0, Math.min(1, x)) : dflt
ClampOr(x, dflt) == IF IsNumber(x) THEN Num(Clamp01(x.v)) ELSE Num(dflt)


-----------------------------------------------------------------------------
(* validateAndFixResponse *)

LowConfidenceReason == "Low confidence due to image quality or ambiguous evidence"
ModerateConfidenceReason == "Moderate confidence requires manual verification"

\* confidenceScore < 0.4
LowThreshold == 40
\* confidenceScore >= 0.7
HighThreshold == 70
DefaultConfidence == 50
DefaultImageQuality == 70
DefaultRegionOrigin == 0
DefaultRegionSize == 10
DefaultEvidenceStrength == 50
\* highSeverityFindings.length < 2
MinHighFindings == 2

OverallAssessment ==
    {"LIKELY_AUTHENTIC", "SUSPICIOUS_ANOMALIES_DETECTED", "LIKELY_TAMPERED", "MANUAL_REVIEW"}

\* the enum ArtifactType of the result type
ArtifactType ==
    {"COMPRESSION", "CLONING", "HALOING", "NOISE_MISMATCH", "KERNING", "RESAMPLING",
     "LIGHTING", "PAPER_TEXTURE", "STAMP_SEAL", "SIGNATURE", "ALIGNMENT",
     "FABRICATED_CONTENT", "OTHER"}

\* the list the normalizer tests artifactType against
KnownArtifactTypes ==
    {"COMPRESSION", "CLONING", "HALOING", "NOISE_MISMATCH", "KERNING", "RESAMPLING",
     "LIGHTING", "PAPER_TEXTURE", "STAMP_SEAL", "SIGNATURE", "ALIGNMENT", "OTHER"}

Severities == {"Low", "Medium", "High"}

\* [..strings..].includes(x)
InStrings(x, S) == x.t = "string" /\ x.v \in S

\* let confidenceScore = typeof ... === 'number' ? clamp : 0.5
ConfidenceOf(r) == ClampOr(Get(r, "confidenceScore"), DefaultConfidence).v

\* PushReason without the includes() test: the reason is pushed every time
PushReason_Always(r, reason) ==
    LET cur == Get(r, "abstainedReasons")
        arr == IF IsArray(cur) THEN cur.v ELSE <<>>
    IN  Put(r, "abstainedReasons", Arr(Append(arr, Str(reason))))

\* if (!Array.isArray(r.abstainedReasons)) r.abstainedReasons = [];
\* if (!r.abstainedReasons.includes(reason)) r.abstainedReasons.push(reason);
PushReason(r, reason) ==
    LET cur == Get(r, "abstainedReasons")
        arr == IF IsArray(cur) THEN cur.v ELSE <<>>
    IN  Put(r, "abstainedReasons",
            Arr(IF Includes(arr, Str(reason)) THEN arr ELSE Append(arr, Str(reason))))

\* the response object after the consistency rule has run (the rule writes
\* the abstain reason into its argument)
ResponseAfterConsistency(r, c) ==
    IF c < LowThreshold
    THEN PushReason(r, LowConfidenceReason)
    ELSE IF c < HighThreshold /\ Get(r, "overallAssessment") = Str("LIKELY_AUTHENTIC")
         THEN PushReason(r, ModerateConfidenceReason)
         ELSE r

\* some element of the array is null: reading a property of it throws
HasNullishElement(a) ==
    IsArray(a) /\ \E i \in 1..Len(a.v) : IsNullish(a.v[i])

\* findings.filter(f => f.severity === "High").length
HighSeverityCount(a) ==
    IF IsArray(a)
    THEN Cardinality({i \in 1..Len(a.v) : Get(a.v[i], "severity") = Str("High")})
    ELSE 0

\* EnforceConsistency without the low-confidence branch
EnforceConsistency_NoLowBranch(r, c) ==
    LET stated == Get(r, "overallAssessment")
    IN  IF c < HighThreshold
        THEN IF stated = Str("LIKELY_AUTHENTIC") THEN Str("MANUAL_REVIEW") ELSE stated
        ELSE IF /\ stated = Str("LIKELY_TAMPERED")
                /\ HighSeverityCount(Get(r, "detailedFindings")) < MinHighFindings
             THEN Str("SUSPICIOUS_ANOMALIES_DETECTED")
             ELSE stated

\* EnforceConsistency with highSeverityFindings.length <= 2 for < 2
EnforceConsistency_OffByOne(r, c) ==
    LET stated == Get(r, "overallAssessment")
    IN  IF c < LowThreshold
        THEN Str("MANUAL_REVIEW")
        ELSE IF c < HighThreshold
             THEN IF stated = Str("LIKELY_AUTHENTIC") THEN Str("MANUAL_REVIEW") ELSE stated
             ELSE IF /\ stated = Str("LIKELY_TAMPERED")
                     /\ HighSeverityCount(Get(r, "detailedFindings")) <= MinHighFindings
                  THEN Str("SUSPICIOUS_ANOMALIES_DETECTED")
                  ELSE stated

\* EnforceConsistency with the moderate band downgrading every assessment
EnforceConsistency_ModerateAll(r, c) ==
    LET stated == Get(r, "overallAssessment")
    IN  IF c < HighThreshold
        THEN Str("MANUAL_REVIEW")
        ELSE IF /\ stated = Str("LIKELY_TAMPERED")
                /\ HighSeverityCount(Get(r, "detailedFindings")) < MinHighFindings
             THEN Str("SUSPICIOUS_ANOMALIES_DETECTED")
             ELSE stated

\* overallAssessment after the confidence branches
EnforceConsistency(r, c) ==
    LET stated == Get(r, "overallAssessment")
    IN  IF c < LowThreshold
        THEN Str("MANUAL_REVIEW")
        ELSE IF c < HighThreshold
             THEN IF stated = Str("LIKELY_AUTHENTIC") THEN Str("MANUAL_REVIEW") ELSE stated
             ELSE IF /\ stated = Str("LIKELY_TAMPERED")
                     /\ HighSeverityCount(Get(r, "detailedFindings")) < MinHighFindings
                  THEN Str("SUSPICIOUS_ANOMALIES_DETECTED")
                  ELSE stated

\* ValidateEnum that lets every string through
ValidateEnum_AnyString(a) == IF a.t = "string" THEN a ELSE Str("MANUAL_REVIEW")

\* if (![...the four values...].includes(overallAssessment)) overallAssessment = "MANUAL_REVIEW"
ValidateEnum(a) == IF InStrings(a, OverallAssessment) THEN a ELSE Str("MANUAL_REVIEW")

\* the region of a repaired finding
FixRegion(region) ==
    Obj([x |-> ClampOr(GetOpt(region, "x"), DefaultRegionOrigin),
         y |-> ClampOr(GetOpt(region, "y"), DefaultRegionOrigin),
         width |-> ClampOr(GetOpt(region, "width"), DefaultRegionSize),
         height |-> ClampOr(GetOpt(region, "height"), DefaultRegionSize)])

ArrayOr(x) == IF IsArray(x) THEN x ELSE Arr(<<>>)

\* one element of detailedFindings.map(...), for a non-nullish element
FixFinding(f) ==
    Obj([finding |-> OrElse(Get(f, "finding"), Str("Unspecified finding")),
         location |-> OrElse(Get(f, "location"), Str("Unknown location")),
         severity |-> IF InStrings(Get(f, "severity"), Severities)
                      THEN Get(f, "severity") ELSE Str("Low"),
         artifactType |-> IF InStrings(Get(f, "artifactType"), KnownArtifactTypes)
                          THEN Get(f, "artifactType") ELSE Str("OTHER"),
         region |-> FixRegion(Get(f, "region")),
         evidenceStrength |-> ClampOr(Get(f, "evidenceStrength"), DefaultEvidenceStrength),
         benignAlternatives |-> ArrayOr(Get(f, "benignAlternatives")),
         crossChecks |-> ArrayOr(Get(f, "crossChecks")),
         geometricConsistency |-> OrElse(Get(f, "geometricConsistency"), Null),
         lightingVector |-> OrElse(Get(f, "lightingVector"), Null),
         resamplingIndicators |-> ArrayOr(Get(f, "resamplingIndicators")),
         cloneMatches |-> ArrayOr(Get(f, "cloneMatches"))])

FixFindings(a) ==
    IF IsArray(a) THEN Arr([i \in 1..Len(a.v) |-> FixFinding(a.v[i])]) ELSE Arr(<<>>)

\* the object literal defaultResponse
DefaultResponse(r, assessment, c) ==
    Obj([analysisLog |-> OrElse(Get(r, "analysisLog"),
                Str("Analysis completed with default values due to parsing issues.")),
         overallAssessment |-> assessment,
         confidenceScore |-> Num(c),
         summary |-> OrElse(Get(r, "summary"),
                Str("Analysis completed with limited confidence.")),
         technicalSummary |-> OrElse(Get(r, "technicalSummary"),
                Str("Technical analysis results inconclusive.")),
         detailedFindings |-> FixFindings(Get(r, "detailedFindings")),
         coverageNotes |-> OrElse(Get(r, "coverageNotes"), Str("Coverage analysis completed.")),
         imageQualityScore |-> ClampOr(Get(r, "imageQualityScore"), DefaultImageQuality),
         abstainedReasons |-> ArrayOr(Get(r, "abstainedReasons")),
         promptVersion |-> OrElse(Get(r, "promptVersion"), Str("v2.2"))])

\* The call validateAndFixResponse(r): ret is the value returned or the
\* exception thrown, arg is the argument object as the call leaves it.
validateAndFixResponse(r) ==
    IF IsNullish(r)
    THEN [ret |-> Throw("TypeError"), arg |-> r]
    ELSE LET c == ConfidenceOf(r)
             r1 == ResponseAfterConsistency(r, c)
             findings == Get(r, "detailedFindings")
         IN  IF HasNullishElement(findings)
             THEN [ret |-> Throw("TypeError"), arg |-> r1]
             ELSE [ret |-> DefaultResponse(r1, ValidateEnum(EnforceConsistency(r, c)), c),
                   arg |-> r1]

-----------------------------------------------------------------------------
(* Parsed provider responses the normalizer is run on *)

\* longest detailedFindings array of the consistency inputs
MaxFindings == 2
\* longest abstainedReasons array of the consistency inputs
MaxReasons == 2
\* longest detailedFindings array of the field-repair inputs
MaxRepairFindings == 1

SeqsUpTo(S, n) == UNION {[1..k -> S] : k \in 0..n}

\* a finding object with every field as the schema asks
WellFormedFinding(severity, artifactType) ==
    Obj([finding |-> Str("edge halo"), location |-> Str("top-right date field"),
         severity |-> severity, artifactType |-> artifactType,
         region |-> Obj([x |-> Num(10), y |-> Num(20), width |-> Num(30), height |-> Num(40)]),
         evidenceStrength |-> Num(80),
         benignAlternatives |-> Arr(<<Str("scanner artifact")>>),
         crossChecks |-> Arr(<<>>),
         geometricConsistency |-> Str("aligned"),
         lightingVector |-> Obj([direction |-> Num(4500), softness |-> Num(30)]),
         resamplingIndicators |-> Arr(<<>>),
         cloneMatches |-> Arr(<<>>)])

ConfidenceInputs ==
    {Undef, Str("0.9"), Num(-50), Num(39), Num(40), Num(69), Num(70), Num(150)}

AssessmentInputs ==
    {Str(a) : a \in OverallAssessment} \cup {Str("FORGED"), Undef}

\* elements of detailedFindings that matter to the consistency rule
SeverityFindings ==
    {WellFormedFinding(Str("High"), Str("CLONING")),
     WellFormedFinding(Str("Medium"), Str("CLONING")),
     Null}

ReasonInputs == {Str(LowConfidenceReason), Str(ModerateConfidenceReason), Str("Glare")}

\* a response with the given fields and well-formed narrative fields
ResponseWith(confidence, assessment, findings, reasons, quality, narrative) ==
    Obj([analysisLog |-> narrative, overallAssessment |-> assessment,
         confidenceScore |-> confidence, summary |-> narrative,
         technicalSummary |-> narrative, detailedFindings |-> findings,
         coverageNotes |-> narrative, imageQualityScore |-> quality,
         abstainedReasons |-> reasons, promptVersion |-> narrative])

\* responses that vary what the confidence/assessment rule reads
ConsistencyResponses ==
    {ResponseWith(c, a, f, r, Num(90), Str("text")) :
        c \in ConfidenceInputs, a \in AssessmentInputs,
        f \in {Undef} \cup {Arr(q) : q \in SeqsUpTo(SeverityFindings, MaxFindings)},
        r \in {Undef} \cup {Arr(q) : q \in SeqsUpTo(ReasonInputs, MaxReasons)}}

\* the enumerated fields of a finding: as the schema asks, the enum member the
\* normalizer's list lacks, unknown values, absent
EnumProfiles == {"known", "fabricated", "unknown", "absent"}
\* the numeric fields of a finding: in range, above, below, not numbers, absent
NumberProfiles == {"inside", "above", "below", "strings", "absent"}

ProfileNumber(p) ==
    CASE p = "inside" -> Num(60)
      [] p = "above" -> Num(150)
      [] p = "below" -> Num(-50)
      [] p = "strings" -> Str("0.6")
      [] OTHER -> Undef

ProfileRegion(p) ==
    IF p = "absent" THEN Undef
    ELSE Obj([x |-> ProfileNumber(p), y |-> ProfileNumber(p),
              width |-> ProfileNumber(p), height |-> ProfileNumber(p)])

RepairFinding(e, p) ==
    Obj([finding |-> IF e = "absent" THEN Undef ELSE Str("edge halo"),
         location |-> IF e = "absent" THEN Undef ELSE Str("footer"),
         severity |-> CASE e = "known" -> Str("Low")
                        [] e = "fabricated" -> Str("Medium")
                        [] e = "unknown" -> Str("Critical")
                        [] OTHER -> Undef,
         artifactType |-> CASE e = "known" -> Str("COMPRESSION")
                            [] e = "fabricated" -> Str("FABRICATED_CONTENT")
                            [] e = "unknown" -> Str("SMUDGE")
                            [] OTHER -> Undef,
         region |-> ProfileRegion(p),
         evidenceStrength |-> ProfileNumber(p),
         benignAlternatives |-> IF e = "absent" THEN Undef ELSE Arr(<<Str("scanner artifact")>>),
         crossChecks |-> IF e = "absent" THEN Undef ELSE Arr(<<>>),
         geometricConsistency |-> IF e = "absent" THEN Undef ELSE Str("skewed"),
         lightingVector |-> IF p = "absent" THEN Undef
                            ELSE Obj([direction |-> Num(4500), softness |-> ProfileNumber(p)]),
         resamplingIndicators |-> IF e = "absent" THEN Undef ELSE Arr(<<>>),
         cloneMatches |-> IF p = "absent" THEN Undef
                          ELSE Arr(<<Obj([region1 |-> ProfileRegion(p),
                                          region2 |-> ProfileRegion(p),
                                          similarity |-> ProfileNumber(p)])>>)])

RepairFindings == {RepairFinding(e, p) : e \in EnumProfiles, p \in NumberProfiles}

NarrativeInputs == {Str("text"), Str(""), Num(7), Undef}

\* responses that vary what the field repair reads
RepairResponses ==
    {ResponseWith(Num(75), Str("SUSPICIOUS_ANOMALIES_DETECTED"), Arr(f), Arr(<<>>),
                  ProfileNumber(q), n) :
        f \in SeqsUpTo(RepairFindings, MaxRepairFindings),
        q \in NumberProfiles, n \in NarrativeInputs}

\* JSON values that are not objects: null, a number, an empty object's sibling cases
BareResponses == {Null, Num(5), Str("ok"), Arr(<<>>), Obj([confidenceScore |-> Num(20)])}

Responses == ConsistencyResponses \cup RepairResponses \cup BareResponses

-----------------------------------------------------------------------------
(* The normalizer applied to a response, and again to its own output *)

NotYet == [t |-> "pending"]

\* the credential resolver is not running
KeyIdle ==
    /\ provider = "google"
    /\ configApiKey = Undef
    /\ env = [n \in {} |-> Undef]
    /\ effectiveApiKey = NotYet
    /\ kpc = "idle"

\* analyzeDocument is not running
CallIdle ==
    /\ pc = "idle"
    /\ encoded = FALSE
    /\ calls = 0
    /\ options = Undef
    /\ request = NotYet
    /\ reply = NotYet
    /\ outcome = NotYet

\* no page is mounted
PageIdle ==
    /\ route = "none" /\ hookVersion = 1
    /\ selectedFile = Null /\ previewUrl = Null /\ reads = {}
    /\ analysisResult = Null /\ userContext = ""
    /\ isLoading = FALSE /\ error = Null
    /\ config = Null /\ draft = Null
    /\ inFlight = {} /\ started = 0 /\ superseded = {}
    /\ localStorage = [k \in {} |-> Null]
    /\ sessionStorage = [k \in {} |-> Null]

InitNorm ==
    /\ KeyIdle
    /\ CallIdle
    /\ PageIdle
    /\ input \in Responses
    /\ response = input
    /\ result = NotYet
    /\ resultAfter = NotYet
    /\ again = NotYet
    /\ npc = "start"

\* parsed = ...; validateAndFixResponse(parsed)
Normalize ==
    /\ npc = "start"
    /\ LET out == validateAndFixResponse(response)
       IN  /\ result' = out.ret
           /\ response' = out.arg
    /\ npc' = "once"
    /\ UNCHANGED <<input, resultAfter, again>>
    /\ UNCHANGED <<keyVars, callVars, pageVars>>

\* validateAndFixResponse(result): the result is its own argument.  The result
\* shares its abstainedReasons array with the response, so a write to the
\* one shows in the other.
Renormalize ==
    /\ npc = "once"
    /\ ~IsThrow(result)
    /\ LET out == validateAndFixResponse(result)
       IN  /\ again' = out.ret
           /\ resultAfter' = out.arg
           /\ response' = IF IsArray(Get(response, "abstainedReasons"))
                          THEN Put(response, "abstainedReasons", Get(out.arg, "abstainedReasons"))
                          ELSE response
    /\ npc' = "twice"
    /\ UNCHANGED <<input, result>>
    /\ UNCHANGED <<keyVars, callVars, pageVars>>

NextNorm == Normalize \/ Renormalize

SpecNorm == InitNorm /\ [][NextNorm]_vars

-----------------------------------------------------------------------------
(* Properties of the normalizer, under SpecNorm *)

Returned == npc # "start" /\ ~IsThrow(result)

InputConfidence == ConfidenceOf(input)
InputAssessment == Get(input, "overallAssessment")
InputHighCount ==
    LET a == Get(input, "detailedFindings")
    IN  IF IsArray(a)
        THEN Cardinality({i \in 1..Len(a.v) : Get(a.v[i], "severity") = Str("High")})
        ELSE 0

\* how many entries of the array value a are the string s
CountOf(a, s) ==
    IF IsArray(a) THEN Cardinality({i \in 1..Len(a.v) : a.v[i] = Str(s)}) ELSE 0

\* C1: a numeric confidenceScore below 0.4 (after clamping) makes the returned
\* overallAssessment MANUAL_REVIEW, whatever assessment and findings came in.
C1_LowConfidenceForcesManualReview ==
    (/\ Returned
     /\ IsNumber(Get(input, "confidenceScore"))
     /\ InputConfidence < LowThreshold)
    => Get(result, "overallAssessment") = Str("MANUAL_REVIEW")

C1_Witness ==
    /\ Returned
    /\ Get(input, "confidenceScore") = Num(39)
    /\ InputAssessment = Str("LIKELY_TAMPERED")
    /\ InputHighCount = 2
    /\ Get(result, "overallAssessment") = Str("MANUAL_REVIEW")

\* C2: the normalizer is idempotent: applied to its own output it returns
\* that output in every field, and it writes nothing into it (no further
\* abstain reason).
C2_Idempotent ==
    npc = "twice" => (again = result /\ resultAfter = result)

C2_Witness ==
    /\ npc = "twice"
    /\ InputAssessment = Str("LIKELY_AUTHENTIC")
    /\ Get(input, "confidenceScore") = Undef
    /\ Get(input, "abstainedReasons") = Undef
    /\ Get(again, "overallAssessment") = Str("MANUAL_REVIEW")
    /\ Get(again, "abstainedReasons") = Arr(<<Str(ModerateConfidenceReason)>>)

InUnit(x) == IsNumber(x) => (0 <= x.v /\ x.v <= Unit)

RegionInUnit(g) ==
    IsNullish(g) \/
    (InUnit(Get(g, "x")) /\ InUnit(Get(g, "y")) /\ InUnit(Get(g, "width")) /\ InUnit(Get(g, "height")))

FindingInUnit(f) ==
    /\ InUnit(Get(f, "evidenceStrength"))
    /\ RegionInUnit(Get(f, "region"))
    /\ InUnit(GetOpt(Get(f, "lightingVector"), "softness"))
    /\ LET m == Get(f, "cloneMatches")
       IN  IsArray(m) => \A i \in 1..Len(m.v) :
               /\ InUnit(Get(m.v[i], "similarity"))
               /\ RegionInUnit(Get(m.v[i], "region1"))
               /\ RegionInUnit(Get(m.v[i], "region2"))

\* C4: every numeric field of the returned result lies in [0,1]:
\* confidenceScore, imageQualityScore, each finding's evidenceStrength, region,
\* lightingVector softness, and each cloneMatch's similarity and regions.
C4_AllNumericFieldsInRange ==
    Returned =>
        /\ InUnit(Get(result, "confidenceScore"))
        /\ InUnit(Get(result, "imageQualityScore"))
        /\ LET a == Get(result, "detailedFindings")
           IN  \A i \in 1..Len(a.v) : FindingInUnit(a.v[i])

\* C5: at confidence >= 0.7, LIKELY_TAMPERED with fewer than two High findings
\* is returned as SUSPICIOUS_ANOMALIES_DETECTED; every other valid assessment
\* is returned as stated.
C5_HighConfidenceRule ==
    (/\ Returned
     /\ InputConfidence >= HighThreshold
     /\ InStrings(InputAssessment, OverallAssessment))
    => Get(result, "overallAssessment") =
          IF InputAssessment = Str("LIKELY_TAMPERED") /\ InputHighCount < 2
          THEN Str("SUSPICIOUS_ANOMALIES_DETECTED")
          ELSE InputAssessment

C5_Witness ==
    /\ Returned
    /\ Get(input, "confidenceScore") = Num(70)
    /\ InputAssessment = Str("LIKELY_TAMPERED")
    /\ InputHighCount = 1
    /\ Get(result, "overallAssessment") = Str("SUSPICIOUS_ANOMALIES_DETECTED")

InModerateBand == LowThreshold <= InputConfidence /\ InputConfidence < HighThreshold

\* C6 as stated: in the moderate band LIKELY_AUTHENTIC is returned as
\* MANUAL_REVIEW with the moderate-confidence reason in abstainedReasons
\* exactly once, also after a second application; SUSPICIOUS_ANOMALIES_DETECTED
\* and LIKELY_TAMPERED are returned as stated.
C6_ReasonExactlyOnce ==
    (Returned /\ InModerateBand) =>
        /\ InputAssessment = Str("LIKELY_AUTHENTIC") =>
              /\ Get(result, "overallAssessment") = Str("MANUAL_REVIEW")
              /\ CountOf(Get(result, "abstainedReasons"), ModerateConfidenceReason) = 1
              /\ npc = "twice" =>
                    CountOf(Get(again, "abstainedReasons"), ModerateConfidenceReason) = 1
        /\ InStrings(InputAssessment, {"SUSPICIOUS_ANOMALIES_DETECTED", "LIKELY_TAMPERED"}) =>
              Get(result, "overallAssessment") = InputAssessment

\* C6 amended: in the moderate band LIKELY_AUTHENTIC is returned as
\* MANUAL_REVIEW and the normalizer adds the moderate-confidence reason only
\* when the provider's abstainedReasons lacks it: the returned list holds it
\* once, or as often as the provider's list did if that is more, and a second
\* application returns the same list; SUSPICIOUS_ANOMALIES_DETECTED and
\* LIKELY_TAMPERED are returned as stated.
C6_ReasonAddedOnce ==
    (Returned /\ InModerateBand) =>
        /\ InputAssessment = Str("LIKELY_AUTHENTIC") =>
              /\ Get(result, "overallAssessment") = Str("MANUAL_REVIEW")
              /\ CountOf(Get(result, "abstainedReasons"), ModerateConfidenceReason) =
                    Max2(1, CountOf(Get(input, "abstainedReasons"), ModerateConfidenceReason))
              /\ npc = "twice" =>
                    Get(again, "abstainedReasons") = Get(result, "abstainedReasons")
        /\ InStrings(InputAssessment, {"SUSPICIOUS_ANOMALIES_DETECTED", "LIKELY_TAMPERED"}) =>
              Get(result, "overallAssessment") = InputAssessment

C6_Witness ==
    /\ npc = "twice"
    /\ Get(input, "confidenceScore") = Num(40)
    /\ InputAssessment = Str("LIKELY_AUTHENTIC")
    /\ Get(input, "abstainedReasons") = Arr(<<Str("Glare")>>)
    /\ Get(again, "abstainedReasons") = Arr(<<Str("Glare"), Str(ModerateConfidenceReason)>>)

\* C7: the returned overallAssessment is one of the four enumeration values,
\* and an input value outside the enumeration (or none) is returned as
\* MANUAL_REVIEW at every confidence.
C7_AssessmentInEnum ==
    Returned =>
        /\ InStrings(Get(result, "overallAssessment"), OverallAssessment)
        /\ ~InStrings(InputAssessment, OverallAssessment) =>
              Get(result, "overallAssessment") = Str("MANUAL_REVIEW")

C7_Witness ==
    /\ Returned
    /\ InputAssessment = Str("FORGED")
    /\ InputConfidence >= HighThreshold
    /\ Get(result, "overallAssessment") = Str("MANUAL_REVIEW")

-----------------------------------------------------------------------------
(* apiKeyUtils: validateApiKey, getEffectiveApiKey *)

\* A credential is a JavaScript string kept as its sequence of characters.
Text(chars) == [t |-> "string", v |-> chars]

Providers == {"google", "openai", "azure-openai", "bedrock-openai"}

Whitespace == {" ", "\t", "\n"}

Letters == {"a", "b", "c", "d", "e", "f", "g", "h", "i", "k", "o", "p", "r", "s", "t", "x", "z",
            "A", "B", "F", "I"}
Digits == {"0", "1", "2", "3", "4", "5", "6", "7", "8", "9"}
HexDigits == Digits \cup {"a", "b", "c", "d", "e", "f", "A", "B", "C", "D", "E", "F"}

\* String.prototype.trim
RECURSIVE TrimLeft(_)
TrimLeft(chars) ==
    IF chars # <<>> /\ Head(chars) \in Whitespace THEN TrimLeft(Tail(chars)) ELSE chars

RECURSIVE TrimRight(_)
TrimRight(chars) ==
    IF chars # <<>> /\ chars[Len(chars)] \in Whitespace
    THEN TrimRight(SubSeq(chars, 1, Len(chars) - 1))
    ELSE chars

Trim(chars) == TrimRight(TrimLeft(chars))

\* String.prototype.startsWith
StartsWith(chars, prefix) ==
    Len(chars) >= Len(prefix) /\ SubSeq(chars, 1, Len(prefix)) = prefix

GoogleKeyLength == 39
OpenAIMinKeyLength == 20
AzureKeyLength == 32

\* new URL(chars) does not throw: the text starts with a scheme and a colon,
\* and an http(s) URL names a host
ParsesAsURL(chars) ==
    \E i \in 2..Len(chars) :
        /\ chars[i] = ":"
        /\ chars[1] \in Letters
        /\ \A j \in 2..(i - 1) : chars[j] \in Letters \cup Digits \cup {"+", "-", "."}
        /\ SubSeq(chars, 1, i - 1) \in {<<"h", "t", "t", "p">>, <<"h", "t", "t", "p", "s">>}
              => \E j \in (i + 1)..Len(chars) : chars[j] \notin {"/", "\\"}

validateApiKey(p, apiKey) ==
    IF apiKey.t # "string" \/ Len(apiKey.v) = 0 \/ Len(Trim(apiKey.v)) = 0
    THEN FALSE
    ELSE LET sanitizedKey == Trim(apiKey.v)
         IN  CASE p = "google" ->
                    StartsWith(sanitizedKey, <<"A", "I", "z", "a">>)
                      /\ Len(sanitizedKey) = GoogleKeyLength
               [] p = "openai" ->
                    (StartsWith(sanitizedKey, <<"s", "k", "-">>)
                       \/ StartsWith(sanitizedKey, <<"s", "k", "-", "p", "r", "o", "j", "-">>))
                      /\ Len(sanitizedKey) >= OpenAIMinKeyLength
               [] p = "azure-openai" ->
                    Len(sanitizedKey) = AzureKeyLength
                      /\ \A i \in 1..Len(sanitizedKey) : sanitizedKey[i] \in HexDigits
               [] p = "bedrock-openai" -> ParsesAsURL(sanitizedKey)
               [] OTHER -> FALSE

\* the name of the provider's variable in import.meta.env
EnvKeyName(p) ==
    CASE p = "google" -> "VITE_GOOGLE_API_KEY"
      [] p = "openai" -> "VITE_OPENAI_API_KEY"
      [] p = "azure-openai" -> "VITE_AZURE_OPENAI_API_KEY"
      [] p = "bedrock-openai" -> "VITE_BEDROCK_PROXY_URL"
      [] OTHER -> "none"

\* import.meta.env.NAME
EnvGet(e, name) == IF name \in DOMAIN e THEN e[name] ELSE Undef

\* getEffectiveApiKey with the deployment default taking precedence
getEffectiveApiKey_EnvFirst(p, key, e) ==
    IF EnvGet(e, EnvKeyName(p)) # Undef
    THEN EnvGet(e, EnvKeyName(p))
    ELSE IF key.t = "string" /\ validateApiKey(p, key) THEN key ELSE Undef

getEffectiveApiKey(p, key, e) ==
    IF key.t = "string" /\ Len(key.v) # 0 /\ Len(Trim(key.v)) > 0 /\ validateApiKey(p, key)
    THEN key
    ELSE EnvGet(e, EnvKeyName(p))

-----------------------------------------------------------------------------
(* Credentials the resolver is run on *)

Rep(c, n) == [i \in 1..n |-> c]

\* characters added to and taken from the length a format asks for
KeySlack == 1

\* user-supplied credentials: "sk-" keys around the minimum length, a project
\* key, a wrong prefix, a key in white space; "AIza" keys around the length;
\* hexadecimal keys around the length, upper case, a letter that is no digit;
\* a URL, a path, a URL without host; blank keys; none
UserKeys ==
    LET slack == (-KeySlack)..KeySlack
        openai ==
            {<<"s", "k", "-">> \o Rep("x", OpenAIMinKeyLength - 3 + d) : d \in slack}
            \cup {<<"s", "k", "-", "p", "r", "o", "j", "-">> \o Rep("x", OpenAIMinKeyLength),
                  <<"p", "k", "-">> \o Rep("x", OpenAIMinKeyLength),
                  <<" ">> \o <<"s", "k", "-">> \o Rep("x", OpenAIMinKeyLength) \o <<" ", "\n">>}
        google ==
            {<<"A", "I", "z", "a">> \o Rep("x", GoogleKeyLength - 4 + d) : d \in slack}
            \cup {<<"B", "I", "z", "a">> \o Rep("x", GoogleKeyLength - 4)}
        azure ==
            {Rep("a", AzureKeyLength + d) : d \in slack}
            \cup {Rep("F", AzureKeyLength - 1) \o <<"0">>, Rep("a", AzureKeyLength - 1) \o <<"g">>}
        bedrock ==
            {<<"h", "t", "t", "p", "s", ":", "/", "/", "p", ".", "i", "o">>,
             <<"p", ".", "i", "o", "/", "b">>,
             <<"h", "t", "t", "p", ":", "/", "/">>}
        blank == {<<>>, <<" ", " ">>}
    IN  {Undef} \cup {Text(k) : k \in openai \cup google \cup azure \cup bedrock \cup blank}

\* the deployment's value of a credential variable, when it is set
EnvDefault(p) ==
    CASE p = "google" -> Text(<<"A", "I", "z", "a">> \o Rep("e", GoogleKeyLength - 4))
      [] p = "openai" -> Text(<<"s", "k", "-">> \o Rep("e", OpenAIMinKeyLength))
      [] p = "azure-openai" -> Text(Rep("e", AzureKeyLength))
      [] OTHER -> Text(<<"h", "t", "t", "p", "s", ":", "/", "/", "e", ".", "i", "o">>)

\* the deployment that sets the credential variables of the providers in S
EnvOf(S) ==
    [n \in {EnvKeyName(p) : p \in S} |-> EnvDefault(CHOOSE p \in S : EnvKeyName(p) = n)]

\* deployments: each credential variable set or not
KeyEnvs == {EnvOf(S) : S \in SUBSET Providers}

\* the normalizer is not running
NormIdle ==
    /\ input = Null /\ response = Null /\ result = NotYet
    /\ resultAfter = NotYet /\ again = NotYet /\ npc = "idle"

InitKey ==
    /\ NormIdle
    /\ CallIdle
    /\ PageIdle
    /\ provider \in Providers
    /\ configApiKey \in UserKeys
    /\ env \in KeyEnvs
    /\ effectiveApiKey = NotYet
    /\ kpc = "start"

\* const effectiveApiKey = getEffectiveApiKey(provider, apiKeys[provider])
Resolve ==
    /\ kpc = "start"
    /\ effectiveApiKey' = getEffectiveApiKey(provider, configApiKey, env)
    /\ kpc' = "resolved"
    /\ UNCHANGED <<provider, configApiKey, env>>
    /\ UNCHANGED <<normVars, callVars, pageVars>>

NextKey == Resolve

SpecKey == InitKey /\ [][NextKey]_vars

-----------------------------------------------------------------------------
(* Properties of the credential resolver, under SpecKey *)

UserKeyUsable ==
    /\ configApiKey.t = "string"
    /\ Trim(configApiKey.v) # <<>>
    /\ validateApiKey(provider, configApiKey)

\* the format the spec gives for an OpenAI key: "sk-" and at least 20 characters
WellFormedOpenAIKey ==
    /\ configApiKey.t = "string"
    /\ LET k == Trim(configApiKey.v)
       IN  Len(k) >= 20 /\ k[1] = "s" /\ k[2] = "k" /\ k[3] = "-"

\* C8: getEffectiveApiKey returns the user's credential when it is non-blank
\* and passes the provider's format check (so a well-formed OpenAI key wins
\* over any default); otherwise the provider's deployment default if set;
\* otherwise nothing.  A malformed user key falls back, it raises nothing.
C8_UserKeyTakesPrecedence ==
    kpc = "resolved" =>
        /\ effectiveApiKey =
              IF UserKeyUsable THEN configApiKey
              ELSE IF EnvKeyName(provider) \in DOMAIN env
                   THEN env[EnvKeyName(provider)] ELSE Undef
        /\ (provider = "openai" /\ WellFormedOpenAIKey) => effectiveApiKey = configApiKey
        /\ (provider = "openai" /\ configApiKey.t = "string" /\ ~WellFormedOpenAIKey) =>
              effectiveApiKey = EnvGet(env, "VITE_OPENAI_API_KEY")
        /\ ~IsThrow(effectiveApiKey)

C8_Witness ==
    /\ kpc = "resolved"
    /\ provider = "openai"
    /\ WellFormedOpenAIKey
    /\ EnvKeyName(provider) \in DOMAIN env
    /\ effectiveApiKey = configApiKey
    /\ effectiveApiKey # env[EnvKeyName(provider)]

-----------------------------------------------------------------------------
(* analyzeDocument: texts, JSON.parse, error messages *)

\* An assistant text is kept as its sequence of lexical tokens [k, v]:
\* punctuation, quoted strings, numbers (fixed-point), the literal null,
\* code-fence markers and bare words.  White space is left out.
Tok(k, v) == [k |-> k, v |-> v]
\* punctuation; a code-fence marker: three backquotes and the word after them
P(c) == Tok("punct", c)
Fence(word) == Tok("fence", word)

\* a text that starts with a fence marker loses it, and loses a closing
\* fence marker at its end
StripFence(text) ==
    IF text # <<>> /\ Head(text).k = "fence"
    THEN LET rest == Tail(text)
         IN  IF rest # <<>> /\ rest[Len(rest)] = Fence("")
             THEN SubSeq(rest, 1, Len(rest) - 1)
             ELSE rest
    ELSE text

\* the value of a scalar token
ScalarValue(tok) ==
    CASE tok.k = "num" -> Num(tok.v)
      [] tok.k = "str" -> Str(tok.v)
      [] OTHER -> Null

IsScalar(tok) == tok.k \in {"num", "str", "null"}

\* the tokens between the braces are members "key" : scalar separated by commas
IsMemberList(inner) ==
    \/ inner = <<>>
    \/ /\ Len(inner) % 4 = 3
       /\ \A i \in 1..Len(inner) :
             CASE i % 4 = 1 -> inner[i].k = "str"
               [] i % 4 = 2 -> inner[i] = P(":")
               [] i % 4 = 3 -> IsScalar(inner[i])
               [] OTHER -> inner[i] = P(",")

\* the object a member list denotes (of a repeated key the last member counts)
MembersObject(inner) ==
    LET keyAt == {i \in 1..Len(inner) : i % 4 = 1}
        keys == {inner[i].v : i \in keyAt}
        last(k) == CHOOSE i \in keyAt : inner[i].v = k /\ \A j \in keyAt : inner[j].v = k => j <= i
    IN  Obj([k \in keys |-> ScalarValue(inner[last(k) + 2])])

\* JSON.parse on a token sequence: a scalar, or an object of scalar members;
\* anything else throws SyntaxError
JSONParse(text) ==
    IF Len(text) = 1 /\ IsScalar(text[1])
    THEN ScalarValue(text[1])
    ELSE IF /\ Len(text) >= 2
            /\ text[1] = P("{")
            /\ text[Len(text)] = P("}")
            /\ IsMemberList(SubSeq(text, 2, Len(text) - 1))
         THEN MembersObject(SubSeq(text, 2, Len(text) - 1))
         ELSE Throw("SyntaxError")

\* An Error: its message as a sequence of words ('includes' looks for a word)
Error(words) == [t |-> "error", v |-> words]
IsError(x) == x.t = "error"

\* the message of the error thrown when the provider cannot be used
MissingCredential(p) ==
    CASE p = "google" -> Error(<<"Google API key is not set. Please provide it in the configuration or set VITE_GOOGLE_API_KEY environment variable.">>)
      [] p = "openai" -> Error(<<"OpenAI API key is not set. Please provide it in the configuration or set VITE_OPENAI_API_KEY environment variable.">>)
      [] p = "azure-openai" -> Error(<<"Azure OpenAI configuration missing. Please provide API key in configuration or set VITE_AZURE_OPENAI_API_KEY, VITE_AZURE_OPENAI_ENDPOINT, VITE_AZURE_OPENAI_DEPLOYMENT environment variables.">>)
      [] p = "bedrock-openai" -> Error(<<"Bedrock proxy URL is not set. Please provide it in the configuration or set VITE_BEDROCK_PROXY_URL environment variable.">>)
      [] OTHER -> Error(<<"Unsupported provider:">>)

\* the message each catch block ends with
FailedMessage(p) ==
    CASE p = "google" -> <<"The AI model failed to process the document. Please try again.">>
      [] p = "openai" -> <<"The OpenAI model failed to process the document. Please try again.">>
      [] p = "azure-openai" -> <<"The Azure OpenAI model failed to process the document. Please try again.">>
      [] OTHER -> <<"The Bedrock model failed to process the document. Please try again.">>

InvalidApiKey == <<"Invalid API key. Please check your OpenAI API key in the configuration.">>
RateLimited == <<"Rate limit exceeded. Please wait a moment and try again.">>
InvalidRequest == <<"Invalid request format. This might be a model compatibility issue.">>
NetworkError == <<"Network error. Please check your internet connection and try again.">>

\* the message of an error the runtime throws: the TypeError of a rejected
\* fetch, the SyntaxError of JSON.parse and res.json(), the TypeError of a
\* property read of null or undefined
ThrownMessage(kind) ==
    CASE kind = "fetch" -> <<"Failed", "to", "fetch">>
      [] kind = "SyntaxError" -> <<"Unexpected", "token">>
      [] OTHER -> <<"Cannot", "read", "properties", "of", "null">>

\* error.message.includes(word)
HasWord(words, w) == \E i \in 1..Len(words) : words[i] = w

\* the catch block of the openai branch
OpenAIUserMessage(words) ==
    IF HasWord(words, "401") \/ HasWord(words, "Unauthorized") THEN InvalidApiKey
    ELSE IF HasWord(words, "429") \/ HasWord(words, "rate limit") THEN RateLimited
    ELSE IF HasWord(words, "400") \/ HasWord(words, "Bad Request") THEN InvalidRequest
    ELSE IF HasWord(words, "network") \/ HasWord(words, "fetch") THEN NetworkError
    ELSE FailedMessage("openai")

\* the catch block of each provider's branch: the Error the caller receives
\* for an error with the given message thrown inside the try
Rethrown(p, words) ==
    IF p = "openai" THEN Error(OpenAIUserMessage(words)) ELSE Error(FailedMessage(p))

\* throw new Error(`... error: ${res.status} - ${errorText}`)
HttpErrorWords(p, status, body) ==
    (CASE p = "openai" -> <<"OpenAI", "API", "error:">>
       [] p = "azure-openai" -> <<"Azure", "OpenAI", "API", "error:">>
       [] OTHER -> <<"Bedrock", "proxy", "error:">>)
    \o <<status, "-">> \o body

\* the text handed to JSON.parse: the google branch parses the text as it
\* is, the others strip the code fence first
CleanedText(p, text) == IF p = "google" THEN text ELSE StripFence(text)

\* the cleaned text parsed and normalized: what the try block returns or throws
ParseAndNormalize(p, text) ==
    LET parsed == JSONParse(CleanedText(p, text))
    IN  IF IsThrow(parsed)
        THEN Rethrown(p, ThrownMessage("SyntaxError"))
        ELSE LET out == validateAndFixResponse(parsed).ret
             IN  IF IsThrow(out) THEN Rethrown(p, ThrownMessage("TypeError")) ELSE out

\* json.choices?.[0]?.message?.content?.trim?.() || '' (the google branch
\* reads response.text.trim(), which throws when there is no text)
AssistantText(content) == IF content.t = "string" THEN content.v ELSE <<>>

\* what analyzeDocument returns or throws once the provider has answered
HandleReply(p, r) ==
    CASE r.kind = "rejected" -> Rethrown(p, ThrownMessage("fetch"))
      [] r.kind = "http" -> Rethrown(p, HttpErrorWords(p, r.status, r.body))
      [] r.kind = "garbled" -> Rethrown(p, ThrownMessage("SyntaxError"))
      [] OTHER -> IF p = "google" /\ r.content = Undef
                  THEN Rethrown(p, ThrownMessage("TypeError"))
                  ELSE ParseAndNormalize(p, AssistantText(r.content))

-----------------------------------------------------------------------------
(* modelParameterUtils: model families and generation parameters *)

\* MODEL_CATEGORIES, in the order Object.entries visits it
MODEL_CATEGORIES ==
    <<[type |-> "gpt-4o", endpoint |-> "chat/completions",
       models |-> <<"gpt-4o", "gpt-4o-mini", "gpt-4-vision-preview">>],
      [type |-> "gpt-5", endpoint |-> "chat/completions",
       models |-> <<"gpt-5", "gpt-5-mini", "gpt-4.1-mini", "gpt-4.1-nano">>],
      [type |-> "o-series", endpoint |-> "responses",
       models |-> <<"o4-mini", "o3">>],
      [type |-> "legacy", endpoint |-> "chat/completions",
       models |-> <<"model-router">>]>>

\* getModelType that never looks the name up
getModelType_AlwaysLegacy(modelName) == "legacy"

\* the type of the first category whose list includes the name, else 'legacy'
getModelType(modelName) ==
    LET hits == {i \in DOMAIN MODEL_CATEGORIES :
                    Includes(MODEL_CATEGORIES[i].models, modelName)}
    IN  IF hits = {} THEN "legacy"
        ELSE MODEL_CATEGORIES[CHOOSE i \in hits : \A j \in hits : i <= j].type

\* PARAMETER_CONSTRAINTS, in hundredths
PARAMETER_CONSTRAINTS ==
    [temperature |-> [min |-> 0, max |-> 2 * Unit],
     topP |-> [min |-> 0, max |-> Unit],
     frequencyPenalty |-> [min |-> -2 * Unit, max |-> 2 * Unit],
     presencePenalty |-> [min |-> -2 * Unit, max |-> 2 * Unit],
     maxTokens |-> [min |-> Unit, max |-> 32768 * Unit],
     maxCompletionTokens |-> [min |-> Unit, max |-> 32768 * Unit],
     maxOutputTokens |-> [min |-> Unit, max |-> 32768 * Unit]]

\* validateParameter(paramName, value).isValid
validateParameter(paramName, value) ==
    IF paramName \notin DOMAIN PARAMETER_CONSTRAINTS THEN TRUE
    ELSE ~(value < PARAMETER_CONSTRAINTS[paramName].min
           \/ value > PARAMETER_CONSTRAINTS[paramName].max)

\* { ...a, ...b }
Spread(a, b) ==
    Obj([k \in (DOMAIN a.v) \cup (DOMAIN b.v) |->
            IF k \in DOMAIN b.v THEN b.v[k] ELSE a.v[k]])

\* createAPIParameterConfig whose reasoning case spreads baseConfig as the
\* other cases do
createAPIParameterConfig_SpreadBase(parameterConfig) ==
    LET parameters == Get(parameterConfig, "parameters")
    IN  Obj([temperature |-> Get(parameters, "temperature"),
             top_p |-> Get(parameters, "topP"),
             frequency_penalty |-> Get(parameters, "frequencyPenalty"),
             presence_penalty |-> Get(parameters, "presencePenalty"),
             max_output_tokens |-> Get(parameters, "maxOutputTokens"),
             reasoning |-> Obj([effort |-> Get(parameters, "reasoningEffort")])])

\* createAPIParameterConfig for a configuration that has its parameters
createAPIParameterConfig(parameterConfig) ==
    LET modelType == Get(parameterConfig, "modelType")
        parameters == Get(parameterConfig, "parameters")
        baseConfig ==
            Obj([temperature |-> Get(parameters, "temperature"),
                 top_p |-> Get(parameters, "topP"),
                 frequency_penalty |-> Get(parameters, "frequencyPenalty"),
                 presence_penalty |-> Get(parameters, "presencePenalty")])
    IN  CASE modelType \in {Str("gpt-4o"), Str("legacy")} ->
               Spread(baseConfig, Obj([max_tokens |-> Get(parameters, "maxTokens")]))
          [] modelType = Str("gpt-5") ->
               Spread(baseConfig,
                      Obj([max_completion_tokens |-> Get(parameters, "maxCompletionTokens"),
                           response_format |-> Get(parameters, "responseFormat")]))
          [] modelType = Str("o-series") ->
               Obj([max_output_tokens |-> Get(parameters, "maxOutputTokens"),
                    reasoning |-> Obj([effort |-> Get(parameters, "reasoningEffort")])])
          [] OTHER -> baseConfig

-----------------------------------------------------------------------------
(* analyzeDocument: one invocation *)

\* the provider named by the options, or by VITE_AI_PROVIDER when the
\* options name none (a deployment may name one the code does not know)
ResolvedProviders == Providers \cup {"anthropic"}

\* the user-supplied credentials an invocation is tried with
CallUserKeys(p) ==
    {Undef, Text(<<"b", "a", "d">>)} \cup
    {k \in {Text(<<"s", "k", "-">> \o Rep("x", OpenAIMinKeyLength)),
            Text(<<"A", "I", "z", "a">> \o Rep("x", GoogleKeyLength - 4)),
            Text(Rep("a", AzureKeyLength)),
            Text(<<"h", "t", "t", "p", "s", ":", "/", "/", "p", ".", "i", "o">>)} :
        validateApiKey(p, k)}

\* deployments for provider p: its credential variable unset, empty or set,
\* and the Azure endpoint and deployment name set or not
CallEnvs(p) ==
    {[n \in (DOMAIN k) \cup (DOMAIN a) |-> IF n \in DOMAIN k THEN k[n] ELSE a[n]] :
        k \in {EnvOf({}), EnvOf({p} \cap Providers),
               [n \in {EnvKeyName(q) : q \in {p} \cap Providers} |-> Text(<<>>)]},
        a \in {[n \in N |-> Text(<<"s", "e", "t">>)] :
                 N \in SUBSET {"VITE_AZURE_OPENAI_ENDPOINT", "VITE_AZURE_OPENAI_DEPLOYMENT"}}}

\* assistant texts
RawTexts ==
    {<<Tok("word", "not"), Tok("word", "json")>>,
     <<>>,
     <<Tok("null", "null")>>,
     <<P("{"), P("}")>>,
     <<Fence("json"), P("{"), P("}"), Fence("")>>,
     <<Fence(""), P("{"), Tok("str", "confidenceScore"), P(":"), Tok("num", 20), P("}"), Fence("")>>,
     <<P("{"), Tok("str", "confidenceScore"), P(":")>>}
    \cup
    {<<P("{"), Tok("str", "confidenceScore"), P(":"), Tok("num", c), P(","),
       Tok("str", "overallAssessment"), P(":"), Tok("str", a), P("}")>> :
        c \in {20, 75}, a \in {"LIKELY_AUTHENTIC", "LIKELY_TAMPERED"}}

\* what the provider can answer to the one call: the call is rejected, a
\* failure status with a body, a success whose body is no JSON envelope, a
\* success with the assistant text (or none) in the envelope; the Bedrock
\* proxy's body is the text itself
Replies(p) ==
    {[kind |-> "rejected"]}
    \cup (IF p = "google" THEN {}
          ELSE {[kind |-> "http", status |-> st, body |-> b] :
                   st \in {"400", "401", "429", "500"},
                   b \in {<<>>, <<"Unauthorized">>, <<"quota", "429">>, <<"invalid", "model">>}})
    \cup (IF p \in {"openai", "azure-openai"} THEN {[kind |-> "garbled"]} ELSE {})
    \cup {[kind |-> "ok", content |-> Text(x)] : x \in RawTexts}
    \cup (IF p = "bedrock-openai" THEN {} ELSE {[kind |-> "ok", content |-> Undef]})

\* config.parameters as the configuration page builds it: a model type with
\* its parameters, in hundredths; values typed into the number inputs are
\* kept as typed
ParameterConfigs ==
    LET standard == [temperature |-> Num(10), topP |-> Num(Unit),
                     frequencyPenalty |-> Num(0), presencePenalty |-> Num(0)]
        With(rec, k, val) == [f \in (DOMAIN rec) \cup {k} |-> IF f = k THEN val ELSE rec[f]]
        Config(type, rec) == Obj([modelType |-> Str(type), parameters |-> Obj(rec)])
        json == Obj([type |-> Str("json_object")])
        text == Obj([type |-> Str("text")])
        reasoning == [temperature |-> Num(10), maxOutputTokens |-> Num(4000 * Unit),
                      reasoningEffort |-> Str("medium"), reasoningStrategy |-> Str("default")]
    IN  {Config("gpt-4o", With(standard, "maxTokens", Num(4000 * Unit))),
         Config("gpt-4o", With(With(standard, "maxTokens", Num(4000 * Unit)),
                               "temperature", Num(250))),
         Config("legacy", With(standard, "maxTokens", Num(0))),
         Config("gpt-5", With(With(standard, "maxCompletionTokens", Num(4000 * Unit)),
                              "responseFormat", json)),
         Config("gpt-5", With(With(standard, "maxCompletionTokens", Num(4000 * Unit)),
                              "responseFormat", text)),
         Config("o-series", reasoning),
         Config("o-series", With(With(With(reasoning, "topP", Num(150)),
                                      "presencePenalty", Num(-300)),
                                 "maxOutputTokens", Num(40000 * Unit)))}

\* the options of an invocation besides provider and credentials
CallOptions(p) ==
    [model : {Undef} \cup {Str(n) : n \in {"gpt-4o-mini", "gpt-5", "gpt-4.1-mini", "o3",
                                          "o4-mini", "o1", "unknown-model-xyz"}},
     azureDeployment : IF p = "azure-openai" THEN {Undef, Str("o4-mini")} ELSE {Undef},
     parameters : {Undef} \cup ParameterConfigs]

\* JSON.stringify of an object: a property whose value is undefined is left out
Stringify(o) == Obj([k \in {f \in DOMAIN o.v : o.v[f] # Undef} |-> o.v[k]])

\* the model name the openai and azure-openai branches classify; every
\* deployment of CallEnvs that has VITE_AZURE_OPENAI_DEPLOYMENT names it "set"
ModelOf(p, opts, e) ==
    IF p = "openai"
    THEN OrElse(OrElse(opts.model, EnvGet(e, "VITE_OPENAI_MODEL")), Str("gpt-4o-mini"))
    ELSE OrElse(opts.model, OrElse(opts.azureDeployment, Str("set")))

\* apiParams of the openai branch; startsWith('gpt-5') and includes('4.1')
\* are tabulated over the names of CallOptions
OpenAIParams(model) ==
    LET sampling == [temperature |-> Num(10), top_p |-> Num(Unit),
                     frequency_penalty |-> Num(0), presence_penalty |-> Num(0)]
    IN  IF model \in {"o3", "o1", "o1-mini"} \/ getModelType(model) = "o-series"
        THEN Obj([max_completion_tokens |-> Num(4000 * Unit)])
        ELSE IF model \in {"gpt-5", "gpt-5-mini", "gpt-4.1-mini", "gpt-4.1-nano"}
        THEN Spread(Obj(sampling), Obj([max_completion_tokens |-> Num(4000 * Unit)]))
        ELSE Spread(Obj(sampling), Obj([max_tokens |-> Num(4000 * Unit)]))

\* apiParams of the azure-openai branch
AzureParams(opts, modelType) ==
    IF Truthy(opts.parameters) THEN createAPIParameterConfig(opts.parameters)
    ELSE CASE modelType = "gpt-5" ->
                 Obj([max_completion_tokens |-> Num(4000 * Unit), temperature |-> Num(10)])
           [] modelType = "o-series" ->
                 Obj([max_output_tokens |-> Num(4000 * Unit),
                      reasoning |-> Obj([effort |-> Str("medium")])])
           [] OTHER -> Obj([max_tokens |-> Num(4000 * Unit), temperature |-> Num(10)])

\* the request an invocation sends: the endpoint, the model type the branch
\* computed, and the body as JSON.stringify writes it
RequestOf(p, opts, e) ==
    LET system == Obj([role |-> Str("system")])
        user == Obj([role |-> Str("user"),
                     content |-> Arr(<<Str("text"), Str("image_url")>>)])
        chat == Obj([response_format |-> Obj([type |-> Str("json_object")]),
                     messages |-> Arr(<<system, user>>)])
        responses ==
            Obj([input |-> Arr(<<Obj([role |-> Str("user"),
                                      content |-> Arr(<<Str("input_text"), Str("input_image")>>)])>>)])
        model == ModelOf(p, opts, e)
        modelType == getModelType(model.v)
    IN  CASE p = "google" ->
               [endpoint |-> "generateContent", modelType |-> "none",
                body |-> Obj([model |-> OrElse(opts.model, Str("gemini-2.0-flash-exp")),
                              contents |-> Arr(<<Str("text"), Str("inlineData")>>),
                              config |-> Obj([responseMimeType |-> Str("application/json")])])]
          [] p = "openai" ->
               [endpoint |-> "chat/completions", modelType |-> modelType,
                body |-> Stringify(Spread(Spread(Obj([model |-> model]), chat),
                                          OpenAIParams(model.v)))]
          [] p = "azure-openai" ->
               [endpoint |-> IF modelType = "o-series" THEN "responses" ELSE "chat/completions",
                modelType |-> modelType,
                body |-> Stringify(Spread(IF modelType = "o-series" THEN responses ELSE chat,
                                          AzureParams(opts, modelType)))]
          [] OTHER ->
               [endpoint |-> "proxy", modelType |-> "none",
                body |-> Obj([provider |-> Str("openai"), messages |-> Arr(<<system, user>>)])]

Init ==
    /\ NormIdle
    /\ PageIdle
    /\ provider \in ResolvedProviders
    /\ configApiKey \in CallUserKeys(provider)
    /\ env \in CallEnvs(provider)
    /\ effectiveApiKey = NotYet
    /\ kpc = "idle"
    /\ pc = "start"
    /\ encoded = FALSE
    /\ calls = 0
    /\ options \in CallOptions(provider)
    /\ request = NotYet
    /\ reply = NotYet
    /\ outcome = NotYet

\* !x is false: x is a string of at least one character
Present(x) == x.t = "string" /\ x.v # <<>>

\* Usable without the test of the credential
Usable_NoKeyCheck(p, key, e) ==
    /\ p \in Providers
    /\ p = "azure-openai" =>
          /\ Present(EnvGet(e, "VITE_AZURE_OPENAI_ENDPOINT"))
          /\ Present(EnvGet(e, "VITE_AZURE_OPENAI_DEPLOYMENT"))

\* Usable that asks for the deployment default whatever the user supplied
Usable_DefaultOnly(p, key, e) ==
    /\ p \in Providers
    /\ Present(EnvGet(e, EnvKeyName(p)))
    /\ p = "azure-openai" =>
          /\ Present(EnvGet(e, "VITE_AZURE_OPENAI_ENDPOINT"))
          /\ Present(EnvGet(e, "VITE_AZURE_OPENAI_DEPLOYMENT"))

\* the negation of the test that throws the missing-credential error
Usable(p, key, e) ==
    /\ p \in Providers
    /\ Present(key)
    /\ p = "azure-openai" =>
          /\ Present(EnvGet(e, "VITE_AZURE_OPENAI_ENDPOINT"))
          /\ Present(EnvGet(e, "VITE_AZURE_OPENAI_DEPLOYMENT"))

\* const effectiveApiKey = getEffectiveApiKey(...); if (!effectiveApiKey ...) throw
Begin ==
    /\ pc = "start"
    /\ LET key == IF provider \in Providers
                  THEN getEffectiveApiKey(provider, configApiKey, env) ELSE Undef
       IN  /\ effectiveApiKey' = key
           /\ IF Usable(provider, key, env)
              THEN pc' = "encoding" /\ outcome' = outcome
              ELSE pc' = "failed" /\ outcome' = MissingCredential(provider)
    /\ UNCHANGED <<provider, configApiKey, env, kpc, encoded, calls, options, request, reply>>
    /\ UNCHANGED <<normVars, pageVars>>

\* await fileToGenerativePart(file) / await fileToBase64DataUrl(file): the
\* read ends well or with an error.  After a failed read reader.result is null:
\* the google handler throws inside onloadend and its promise never settles,
\* the others resolve with null.
Encode ==
    /\ pc = "encoding"
    /\ encoded' = TRUE
    /\ \E readOk \in BOOLEAN :
          pc' = IF provider = "google" /\ ~readOk THEN "hung" ELSE "calling"
    /\ UNCHANGED <<provider, configApiKey, env, effectiveApiKey, kpc, calls, options, request, reply, outcome>>
    /\ UNCHANGED <<normVars, pageVars>>

\* fetch(...) / googleAI.models.generateContent(...)
Call ==
    /\ pc = "calling"
    /\ calls' = calls + 1
    /\ request' = RequestOf(provider, options, env)
    /\ pc' = "awaiting"
    /\ UNCHANGED <<provider, configApiKey, env, effectiveApiKey, kpc, encoded, options, reply, outcome>>
    /\ UNCHANGED <<normVars, pageVars>>

\* the call settles; the rest of the try block and the catch block run
Settle ==
    /\ pc = "awaiting"
    /\ \E r \in Replies(provider) :
          /\ reply' = r
          /\ outcome' = HandleReply(provider, r)
          /\ pc' = IF IsError(HandleReply(provider, r)) THEN "failed" ELSE "returned"
    /\ UNCHANGED <<provider, configApiKey, env, effectiveApiKey, kpc, encoded, calls, options, request>>
    /\ UNCHANGED <<normVars, pageVars>>

Next == Begin \/ Encode \/ Call \/ Settle

Spec == Init /\ [][Next]_vars

-----------------------------------------------------------------------------
(* Properties of analyzeDocument, under Spec *)

Settled == pc \in {"returned", "failed"}
Answered == Settled /\ calls > 0

\* the result for a response without any field
FullyDefaulted == validateAndFixResponse(Obj([n \in {} |-> Undef])).ret

\* C3: normalization never fails: when the provider answered with a success
\* whose assistant text is not parseable JSON ("not json", or the empty text
\* of an envelope without text) or lacks fields, analyzeDocument returns an
\* AnalysisResult - fully defaulted for an unparseable text - and raises nothing.
C3_NeverFailsOnBadText ==
    (Answered /\ reply.kind = "ok") =>
        /\ pc = "returned"
        /\ outcome.t = "object"
        /\ IsThrow(JSONParse(CleanedText(provider, AssistantText(reply.content)))) =>
              outcome = FullyDefaulted

HasCredential == Present(effectiveApiKey)

AzureConfigured ==
    /\ Present(EnvGet(env, "VITE_AZURE_OPENAI_ENDPOINT"))
    /\ Present(EnvGet(env, "VITE_AZURE_OPENAI_DEPLOYMENT"))

C10_StatusDecidesMessage ==
    (Answered /\ reply.kind = "http") =>
        /\ pc = "failed"
        /\ reply.status = "401" => outcome = Error(InvalidApiKey)
        /\ reply.status = "429" => outcome = Error(RateLimited)
        /\ reply.status = "400" => outcome = Error(InvalidRequest)

-----------------------------------------------------------------------------
(* Properties of the request analyzeDocument sends, under Spec *)

Sent == request # NotYet

\* some numeric parameter of the configuration fails validateParameter
HoldsOutOfRange(parameterConfig) ==
    /\ parameterConfig # Undef
    /\ \E k \in DOMAIN Get(parameterConfig, "parameters").v :
          LET val == Get(parameterConfig, "parameters").v[k]
          IN  IsNumber(val) /\ ~validateParameter(k, val.v)

\* C11: while the supplied configuration holds a numeric parameter outside
\* its declared range, analyzeDocument issues no request: the invocation ends
\* with an error before any network call.
C11_OutOfRangeNeverSent ==
    HoldsOutOfRange(options.parameters) =>
        /\ calls = 0
        /\ ~Sent
        /\ Settled => IsError(outcome)

SamplingKeys == {"temperature", "top_p", "frequency_penalty", "presence_penalty"}

\* the model of the invocation belongs to the reasoning family
ReasoningModel ==
    \/ Truthy(options.model) /\ getModelType(options.model.v) = "o-series"
    \/ Sent /\ request.modelType = "o-series"

\* C12: no request sent for a reasoning-family model carries temperature,
\* top_p, frequency_penalty or presence_penalty, for any provider and any
\* parameters configuration in the options.
C12_ReasoningRequestHasNoSampling ==
    (Sent /\ ReasoningModel) => SamplingKeys \cap DOMAIN request.body.v = {}

\* the azure-openai branch built its apiParams from a reasoning configuration
ReasoningConfigSent ==
    /\ Sent
    /\ provider = "azure-openai"
    /\ options.parameters # Undef
    /\ Get(options.parameters, "modelType") = Str("o-series")

\* C13: createAPIParameterConfig for model type 'o-series' returns an object
\* with none of temperature, top_p, frequency_penalty, presence_penalty,
\* whatever the parameters hold for them: it holds max_output_tokens and
\* reasoning.effort only, and those are what the request body receives.
C13_ReasoningWireParameters ==
    ReasoningConfigSent =>
        LET parameters == Get(options.parameters, "parameters")
            out == createAPIParameterConfig(options.parameters)
        IN  /\ DOMAIN out.v = {"max_output_tokens", "reasoning"}
            /\ out.v["max_output_tokens"] = Get(parameters, "maxOutputTokens")
            /\ out.v["reasoning"] = Obj([effort |-> Get(parameters, "reasoningEffort")])
            /\ SamplingKeys \cap DOMAIN request.body.v = {}
            /\ request.body.v["max_output_tokens"] = out.v["max_output_tokens"]
            /\ request.body.v["reasoning"] = out.v["reasoning"]

C13_Witness ==
    /\ ReasoningConfigSent
    /\ Get(Get(options.parameters, "parameters"), "topP") = Num(150)
    /\ Get(Get(options.parameters, "parameters"), "temperature") = Num(10)
    /\ "max_output_tokens" \in DOMAIN request.body.v
    /\ "top_p" \notin DOMAIN request.body.v

\* the categories whose list holds the name
Holders(name) ==
    {i \in DOMAIN MODEL_CATEGORIES : Includes(MODEL_CATEGORIES[i].models, name)}

\* C14: the per-family model lists are disjoint, and the type computed for
\* the model of a request is the family whose list holds the name: the
\* reasoning family for 'o3' and 'o4-mini', 'legacy' for a name in no list.
C14_OneFamilyPerModel ==
    /\ \A i, j \in DOMAIN MODEL_CATEGORIES :
          i # j => \A k \in DOMAIN MODEL_CATEGORIES[i].models :
                      ~Includes(MODEL_CATEGORIES[j].models, MODEL_CATEGORIES[i].models[k])
    /\ \A i \in DOMAIN MODEL_CATEGORIES :
          \A k \in DOMAIN MODEL_CATEGORIES[i].models :
             getModelType(MODEL_CATEGORIES[i].models[k]) = MODEL_CATEGORIES[i].type
    /\ (Sent /\ provider \in {"openai", "azure-openai"}) =>
          LET name == ModelOf(provider, options, env).v
          IN  /\ name \in {"o3", "o4-mini"} => request.modelType = "o-series"
              /\ Holders(name) = {} => request.modelType = "legacy"
              /\ \A i \in Holders(name) : request.modelType = MODEL_CATEGORIES[i].type

C14_Witness ==
    /\ Sent
    /\ provider = "openai"
    /\ options.model = Str("o4-mini")
    /\ request.modelType = "o-series"

\* C15: for openai and azure-openai the endpoint follows the model family: a
\* reasoning-family model is sent to the responses endpoint with a single
\* user input of one text part and one image part, every other model to the
\* chat-completions endpoint with a system message, a user message and a JSON
\* response format.
C15_EndpointFollowsFamily ==
    (Sent /\ provider \in {"openai", "azure-openai"}) =>
        IF request.modelType = "o-series"
        THEN /\ request.endpoint = "responses"
             /\ Get(request.body, "input") =
                   Arr(<<Obj([role |-> Str("user"),
                              content |-> Arr(<<Str("input_text"), Str("input_image")>>)])>>)
        ELSE /\ request.endpoint = "chat/completions"
             /\ Get(request.body, "response_format") = Obj([type |-> Str("json_object")])
             /\ IsArray(Get(request.body, "messages"))
             /\ Len(Get(request.body, "messages").v) = 2
             /\ Get(Get(request.body, "messages").v[1], "role") = Str("system")
             /\ Get(Get(request.body, "messages").v[2], "role") = Str("user")

-----------------------------------------------------------------------------
(* Further properties of the normalizer, under SpecNorm *)

\* C17: validateAndFixResponse is a pure function of its argument: after the
\* call the input object, its abstainedReasons array included, equals what
\* it was before the call.
C17_InputUnchanged ==
    npc # "start" => response = input

InUnitNumber(x) == IsNumber(x) /\ 0 <= x.v /\ x.v <= Unit

\* a finding as the result type asks: fields well-typed and in range,
\* severity and artifactType members of their enumerations
ValidFinding(f) ==
    /\ f.t = "object"
    /\ Get(f, "finding").t = "string"
    /\ Get(f, "location").t = "string"
    /\ InStrings(Get(f, "severity"), Severities)
    /\ InStrings(Get(f, "artifactType"), ArtifactType)
    /\ Get(f, "region").t = "object"
    /\ \A k \in {"x", "y", "width", "height"} : InUnitNumber(Get(Get(f, "region"), k))
    /\ InUnitNumber(Get(f, "evidenceStrength"))
    /\ \A k \in {"benignAlternatives", "crossChecks", "resamplingIndicators", "cloneMatches"} :
          IsArray(Get(f, k))
    /\ Get(f, "geometricConsistency").t = "string"
    /\ Get(f, "lightingVector").t = "object"
    /\ FindingInUnit(f)

\* a result whose fields are all well-typed and in range and whose
\* assessment is what the confidence rule leaves alone
ValidResult(r) ==
    /\ r.t = "object"
    /\ \A k \in {"analysisLog", "summary", "technicalSummary", "coverageNotes", "promptVersion"} :
          Get(r, k).t = "string"
    /\ InUnitNumber(Get(r, "confidenceScore"))
    /\ InUnitNumber(Get(r, "imageQualityScore"))
    /\ InStrings(Get(r, "overallAssessment"), OverallAssessment)
    /\ IsArray(Get(r, "abstainedReasons"))
    /\ IsArray(Get(r, "detailedFindings"))
    /\ \A i \in 1..Len(Get(r, "detailedFindings").v) :
          /\ ~IsNullish(Get(r, "detailedFindings").v[i])
          /\ ValidFinding(Get(r, "detailedFindings").v[i])
    /\ LET c == Get(r, "confidenceScore").v
           a == Get(r, "overallAssessment").v
           high == Cardinality({i \in 1..Len(Get(r, "detailedFindings").v) :
                       Get(Get(r, "detailedFindings").v[i], "severity") = Str("High")})
       IN  /\ c < LowThreshold =>
                 /\ a = "MANUAL_REVIEW"
                 /\ Includes(Get(r, "abstainedReasons").v, Str(LowConfidenceReason))
           /\ (LowThreshold <= c /\ c < HighThreshold) => a # "LIKELY_AUTHENTIC"
           /\ (c >= HighThreshold /\ a = "LIKELY_TAMPERED") => high >= MinHighFindings

\* C20: validateAndFixResponse returns an already-valid AnalysisResult
\* unchanged: for every valid result, with artifactType any of the thirteen
\* members of ArtifactType, the output equals the input field by field.
C20_ValidResultUnchanged ==
    (npc # "start" /\ ValidResult(input)) => result = input

-----------------------------------------------------------------------------
(* apiKeyUtils: obfuscation and storage of the user's keys *)

\* the characters with codes 32 to 126, in code order (the grave accent is
\* spelled out)
Ascii ==
    <<" ", "!", "\"", "#", "$", "%", "&", "'", "(", ")", "*", "+", ",", "-", ".", "/",
      "0", "1", "2", "3", "4", "5", "6", "7", "8", "9", ":", ";", "<", "=", ">", "?",
      "@", "A", "B", "C", "D", "E", "F", "G", "H", "I", "J", "K", "L", "M", "N", "O",
      "P", "Q", "R", "S", "T", "U", "V", "W", "X", "Y", "Z", "[", "\\", "]", "^", "_",
      "grave", "a", "b", "c", "d", "e", "f", "g", "h", "i", "j", "k", "l", "m", "n", "o",
      "p", "q", "r", "s", "t", "u", "v", "w", "x", "y", "z", "{", "|", "}", "~">>

\* the base64 alphabet
Base64Alphabet ==
    <<"A", "B", "C", "D", "E", "F", "G", "H", "I", "J", "K", "L", "M", "N", "O", "P",
      "Q", "R", "S", "T", "U", "V", "W", "X", "Y", "Z", "a", "b", "c", "d", "e", "f",
      "g", "h", "i", "j", "k", "l", "m", "n", "o", "p", "q", "r", "s", "t", "u", "v",
      "w", "x", "y", "z", "0", "1", "2", "3", "4", "5", "6", "7", "8", "9", "+", "/">>

Reverse(chars) == [i \in 1..Len(chars) |-> chars[Len(chars) + 1 - i]]

\* obfuscate that returns the text as it is
obfuscate_Plain(text) == text

\* btoa(text.split('').reverse().join(''))
obfuscate(text) ==
    LET chars == Reverse(text)
        n == Len(chars)
        byte(i) == IF i <= n
                   THEN 31 + CHOOSE c \in 1..Len(Ascii) : Ascii[c] = chars[i]
                   ELSE 0
        sextet(j) ==
            LET g == (j - 1) \div 4
                b1 == byte(3 * g + 1)
                b2 == byte(3 * g + 2)
                b3 == byte(3 * g + 3)
            IN  CASE (j - 1) % 4 = 0 -> b1 \div 4
                  [] (j - 1) % 4 = 1 -> (b1 % 4) * 16 + b2 \div 16
                  [] (j - 1) % 4 = 2 -> (b2 % 16) * 4 + b3 \div 64
                  [] OTHER -> b3 % 64
        padded(j) ==
            \/ (j - 1) % 4 = 2 /\ 3 * ((j - 1) \div 4) + 2 > n
            \/ (j - 1) % 4 = 3 /\ 3 * ((j - 1) \div 4) + 3 > n
    IN  [j \in 1..(4 * ((n + 2) \div 3)) |->
            IF padded(j) THEN "=" ELSE Base64Alphabet[sextet(j) + 1]]

\* atob(obfuscatedText).split('').reverse().join(''), and the text as it is
\* when atob throws
deobfuscate(obfuscatedText) ==
    LET chars == obfuscatedText
        n == Len(chars)
        pad == IF n >= 2 /\ chars[n - 1] = "=" THEN 2
               ELSE IF n >= 1 /\ chars[n] = "=" THEN 1 ELSE 0
        valid ==
            /\ n % 4 = 0
            /\ \A i \in 1..(n - pad) : \E c \in 1..64 : Base64Alphabet[c] = chars[i]
            /\ \A i \in (n - pad + 1)..n : chars[i] = "="
        sextet(j) == IF chars[j] = "=" THEN 0
                     ELSE (CHOOSE c \in 1..64 : Base64Alphabet[c] = chars[j]) - 1
        byte(i) ==
            LET g == (i - 1) \div 3
            IN  CASE (i - 1) % 3 = 0 -> sextet(4 * g + 1) * 4 + sextet(4 * g + 2) \div 16
                  [] (i - 1) % 3 = 1 -> (sextet(4 * g + 2) % 16) * 16 + sextet(4 * g + 3) \div 4
                  [] OTHER -> (sextet(4 * g + 3) % 4) * 64 + sextet(4 * g + 4)
    IN  IF valid
        THEN Reverse([i \in 1..((n \div 4) * 3 - pad) |-> Ascii[byte(i) - 31]])
        ELSE obfuscatedText

\* storage.setItem(key, value) and storage.removeItem(key)
SetItem(storage, key, value) ==
    [k \in (DOMAIN storage) \cup {key} |-> IF k = key THEN value ELSE storage[k]]

RemoveItem(storage, key) == [k \in (DOMAIN storage) \ {key} |-> storage[k]]

\* the entries of an apiKeys object whose value is not blank
NonBlank(apiKeys) ==
    [k \in {f \in DOMAIN apiKeys : Len(Trim(apiKeys[f])) > 0} |-> apiKeys[k]]

\* storeApiKeys(apiKeys): localStorage afterwards
storeApiKeys(apiKeys, storage) ==
    SetItem(storage, "tamperCheck_apiKeys",
            [k \in DOMAIN NonBlank(apiKeys) |-> obfuscate(Trim(apiKeys[k]))])

\* retrieveApiKeys()
retrieveApiKeys(storage) ==
    IF "tamperCheck_apiKeys" \notin DOMAIN storage THEN [k \in {} |-> <<>>]
    ELSE [k \in DOMAIN storage["tamperCheck_apiKeys"] |->
             deobfuscate(storage["tamperCheck_apiKeys"][k])]

-----------------------------------------------------------------------------
(* useModelConfig: the repository holds two sources of the hook *)

\* an object without one of its properties
Without(object, key) == [k \in (DOMAIN object) \ {key} |-> object[k]]

\* DEFAULT_CONFIG of each source
DEFAULT_CONFIG(version) ==
    LET parameters == [modelType |-> "gpt-4o",
                       parameters |-> [temperature |-> 10, maxTokens |-> 4000 * Unit,
                                       topP |-> Unit, frequencyPenalty |-> 0,
                                       presencePenalty |-> 0]]
    IN  IF version = 1
        THEN [provider |-> "google", model |-> "gemini-2.5-flash",
              parameters |-> parameters]
        ELSE [provider |-> "openai", model |-> "gpt-4o-mini",
              parameters |-> parameters, apiKeys |-> [k \in {} |-> <<>>]]

\* the apiKeys object both the second hook and the configuration page build
\* from retrieveApiKeys(): savedApiKeys.x || '' for each of the four slots
FourSlots(savedApiKeys) ==
    [k \in {"google", "openai", "azureOpenai", "bedrockProxy"} |->
        IF k \in DOMAIN savedApiKeys THEN savedApiKeys[k] ELSE <<>>]

\* the object with apiKeys set, as { ...object, apiKeys }
WithKeys(object, apiKeys) ==
    [k \in (DOMAIN object) \cup {"apiKeys"} |->
        IF k = "apiKeys" THEN apiKeys ELSE object[k]]

\* the mount effect of the hook: the config it sets
LoadConfig(version, storage) ==
    LET saved == IF "tamperCheck_modelConfig" \in DOMAIN storage
                 THEN storage["tamperCheck_modelConfig"]
                 ELSE DEFAULT_CONFIG(version)
        apiKeys == retrieveApiKeys(storage)
    IN  IF version = 2 /\ DOMAIN apiKeys # {}
        THEN WithKeys(saved, FourSlots(apiKeys))
        ELSE saved

\* what handleSave and the second hook's updateConfig write: the config
\* without its keys, and the keys that are not blank, when there are any
SaveSplit(newConfig, storage) ==
    LET stored == SetItem(storage, "tamperCheck_modelConfig",
                          Without(newConfig, "apiKeys"))
    IN  IF "apiKeys" \in DOMAIN newConfig /\ DOMAIN NonBlank(newConfig.apiKeys) # {}
        THEN storeApiKeys(NonBlank(newConfig.apiKeys), stored)
        ELSE stored

\* updateConfig(newConfig): localStorage afterwards
updateConfig(version, newConfig, storage) ==
    IF version = 1
    THEN SetItem(storage, "tamperCheck_modelConfig", newConfig)
    ELSE SaveSplit(newConfig, storage)

-----------------------------------------------------------------------------
(* DocumentForensics and ModelConfiguration: the two pages over one storage *)

\* how many analyses the page starts
MaxRequests == 2

\* both pages unmounted or untouched: what every page action leaves alone
OtherParts == UNCHANGED <<normVars, keyVars, callVars, hookVersion>>

InitPage ==
    /\ NormIdle /\ KeyIdle /\ CallIdle
    /\ route = "/"
    /\ hookVersion \in {1, 2}
    /\ selectedFile = Null /\ previewUrl = Null /\ reads = {}
    /\ analysisResult = Null /\ userContext = ""
    /\ isLoading = FALSE /\ error = Null
    /\ config = DEFAULT_CONFIG(hookVersion)
    /\ draft = Null
    /\ inFlight = {} /\ started = 0 /\ superseded = {}
    /\ localStorage = [k \in {} |-> Null]
    /\ sessionStorage = [k \in {} |-> Null]

\* handleFileSelect(file): the file is selected, its FileReader started, the
\* result and the error cleared
handleFileSelect(file) ==
    /\ route = "/"
    /\ selectedFile' = [name |-> file]
    /\ reads' = reads \cup {[kind |-> "read", file |-> file]}
    /\ analysisResult' = Null
    /\ sessionStorage' = SetItem(sessionStorage, "forensics_analysisResult", Null)
    /\ error' = Null
    /\ superseded' = superseded \cup {r.id : r \in inFlight}
    /\ UNCHANGED <<route, previewUrl, userContext, isLoading, config, draft, inFlight,
                   started, localStorage>>
    /\ OtherParts

\* reader.onloadend of handleFileSelect, and the then() of the restore effect
ReadDone(read) ==
    /\ route = "/"
    /\ read \in reads
    /\ reads' = reads \ {read}
    /\ IF read.kind = "read"
       THEN /\ previewUrl' = [dataUrl |-> read.file]
            /\ sessionStorage' =
                   SetItem(SetItem(sessionStorage, "forensics_fileMetadata",
                                   [name |-> read.file]),
                           "forensics_fileDataUrl", [dataUrl |-> read.file])
            /\ UNCHANGED selectedFile
       ELSE /\ selectedFile' = [name |-> read.file]
            /\ UNCHANGED <<previewUrl, sessionStorage>>
    /\ UNCHANGED <<route, analysisResult, userContext, isLoading, error, config, draft,
                   inFlight, started, superseded, localStorage>>
    /\ OtherParts

\* setUserContext(text) of the context box
setUserContext(text) ==
    /\ route = "/"
    /\ userContext' = text
    /\ sessionStorage' = SetItem(sessionStorage, "forensics_userContext", text)
    /\ UNCHANGED <<route, selectedFile, previewUrl, reads, analysisResult, isLoading,
                   error, config, draft, inFlight, started, superseded, localStorage>>
    /\ OtherParts

\* handleClearAll, behind the button shown when there is a file, a result or
\* a context
handleClearAll ==
    /\ route = "/"
    /\ selectedFile # Null \/ analysisResult # Null \/ userContext # ""
    /\ selectedFile' = Null /\ previewUrl' = Null
    /\ analysisResult' = Null /\ userContext' = ""
    /\ sessionStorage' =
           RemoveItem(RemoveItem(RemoveItem(RemoveItem(sessionStorage,
               "forensics_fileMetadata"), "forensics_fileDataUrl"),
               "forensics_analysisResult"), "forensics_userContext")
    /\ config' = WithKeys(config, [k \in {} |-> <<>>])
    /\ localStorage' = updateConfig(hookVersion, config',
                                    RemoveItem(localStorage, "tamperCheck_apiKeys"))
    /\ error' = Null
    /\ isLoading' = FALSE
    /\ superseded' = superseded \cup {r.id : r \in inFlight}
    /\ UNCHANGED <<route, reads, draft, inFlight, started>>
    /\ OtherParts

\* handleAnalyzeClick up to its await, behind the button disabled without a
\* file and while loading; isLoaded is true from the mount effect on
handleAnalyzeClick ==
    /\ route = "/"
    /\ selectedFile # Null /\ ~isLoading
    /\ started < MaxRequests
    /\ isLoading' = TRUE
    /\ error' = Null
    /\ analysisResult' = Null
    /\ sessionStorage' = SetItem(sessionStorage, "forensics_analysisResult", Null)
    /\ started' = started + 1
    /\ inFlight' = inFlight \cup {[id |-> started + 1, file |-> selectedFile.name]}
    /\ UNCHANGED <<route, selectedFile, previewUrl, reads, userContext, config, draft,
                   superseded, localStorage>>
    /\ OtherParts

\* the continuation of handleAnalyzeClick without its finally block
Complete_NoFinally(call, returned) ==
    /\ route = "/"
    /\ call \in inFlight
    /\ inFlight' = inFlight \ {call}
    /\ IF returned
       THEN /\ analysisResult' = call
            /\ sessionStorage' = SetItem(sessionStorage, "forensics_analysisResult", call)
            /\ UNCHANGED error
       ELSE /\ error' = Error(NetworkError)
            /\ analysisResult' = Null
            /\ sessionStorage' = SetItem(sessionStorage, "forensics_analysisResult", Null)
    /\ UNCHANGED <<route, selectedFile, previewUrl, reads, userContext, config, draft,
                   started, superseded, localStorage, isLoading>>
    /\ OtherParts

\* handleAnalyzeClick after its await: analyzeDocument returned a result or
\* threw
Complete(call, returned) ==
    /\ route = "/"
    /\ call \in inFlight
    /\ inFlight' = inFlight \ {call}
    /\ IF returned
       THEN /\ analysisResult' = call
            /\ sessionStorage' = SetItem(sessionStorage, "forensics_analysisResult", call)
            /\ UNCHANGED error
       ELSE /\ error' = Error(NetworkError)
            /\ analysisResult' = Null
            /\ sessionStorage' = SetItem(sessionStorage, "forensics_analysisResult", Null)
    /\ isLoading' = FALSE
    /\ UNCHANGED <<route, selectedFile, previewUrl, reads, userContext, config, draft,
                   started, superseded, localStorage>>
    /\ OtherParts

\* navigate('/config'): DocumentForensics unmounts, ModelConfiguration mounts
\* and its load effect runs; taken when no request and no read is pending
OpenConfig ==
    /\ route = "/"
    /\ inFlight = {} /\ reads = {}
    /\ route' = "/config"
    /\ selectedFile' = Null /\ previewUrl' = Null
    /\ analysisResult' = Null /\ userContext' = ""
    /\ isLoading' = FALSE /\ error' = Null
    /\ config' = Null
    /\ draft' =
           LET initial == [provider |-> "openai", model |-> "gpt-4o-mini",
                           azureDeployment |-> "", apiKeys |-> [k \in {} |-> <<>>]]
               loaded == IF "tamperCheck_modelConfig" \in DOMAIN localStorage
                         THEN localStorage["tamperCheck_modelConfig"]
                         ELSE initial
               savedApiKeys == retrieveApiKeys(localStorage)
           IN  IF DOMAIN savedApiKeys # {}
               THEN WithKeys(loaded, FourSlots(savedApiKeys))
               ELSE loaded
    /\ UNCHANGED <<reads, inFlight, started, superseded, localStorage, sessionStorage>>
    /\ OtherParts

\* navigate('/') of handleBack and of the timer handleSave starts:
\* ModelConfiguration unmounts, DocumentForensics mounts with the state its
\* hooks read from the two storages
BackToPage ==
    /\ route = "/config"
    /\ route' = "/"
    /\ draft' = Null
    /\ config' = LoadConfig(hookVersion, localStorage)
    /\ analysisResult' = IF "forensics_analysisResult" \in DOMAIN sessionStorage
                         THEN sessionStorage["forensics_analysisResult"]
                         ELSE Null
    /\ userContext' = IF "forensics_userContext" \in DOMAIN sessionStorage
                         /\ sessionStorage["forensics_userContext"] # ""
                      THEN sessionStorage["forensics_userContext"]
                      ELSE ""
    /\ selectedFile' = Null
    /\ IF {"forensics_fileMetadata", "forensics_fileDataUrl"} \subseteq DOMAIN sessionStorage
       THEN /\ previewUrl' = sessionStorage["forensics_fileDataUrl"]
            /\ reads' = {[kind |-> "restore",
                          file |-> sessionStorage["forensics_fileMetadata"].name]}
       ELSE /\ previewUrl' = Null
            /\ reads' = {}
    /\ isLoading' = FALSE /\ error' = Null
    /\ UNCHANGED <<inFlight, started, superseded, localStorage, sessionStorage>>
    /\ OtherParts

\* handleApiKeyChange(provider, value): a key typed into the field of a slot
handleApiKeyChange(slot, value) ==
    /\ route = "/config"
    /\ draft' =
           LET prev == IF "apiKeys" \in DOMAIN draft THEN draft.apiKeys
                       ELSE [k \in {} |-> <<>>]
           IN  WithKeys(draft, [k \in (DOMAIN prev) \cup {slot} |->
                                   IF k = slot THEN value ELSE prev[k]])
    /\ UNCHANGED <<route, selectedFile, previewUrl, reads, analysisResult, userContext,
                   isLoading, error, config, inFlight, started, superseded,
                   localStorage, sessionStorage>>
    /\ OtherParts

\* handleSave: Save Configuration
handleSave ==
    /\ route = "/config"
    /\ localStorage' = SaveSplit(draft, localStorage)
    /\ UNCHANGED <<route, selectedFile, previewUrl, reads, analysisResult, userContext,
                   isLoading, error, config, draft, inFlight, started, superseded,
                   sessionStorage>>
    /\ OtherParts

\* handleClearApiKeys: Clear API Keys
handleClearApiKeys ==
    /\ route = "/config"
    /\ localStorage' = RemoveItem(localStorage, "tamperCheck_apiKeys")
    /\ draft' = WithKeys(draft, [k \in {} |-> <<>>])
    /\ UNCHANGED <<route, selectedFile, previewUrl, reads, analysisResult, userContext,
                   isLoading, error, config, inFlight, started, superseded,
                   sessionStorage>>
    /\ OtherParts

\* the keys typed into the fields of the configuration page
TypedKeys ==
    [openai |-> {<<>>, <<" ">>, <<"s", "k", "-", "A", " ">>},
     google |-> {<<>>, <<"A", "I", "z">>}]

NextPage ==
    \/ \E file \in {"a.png", "b.png"} : handleFileSelect(file)
    \/ \E read \in reads : ReadDone(read)
    \/ \E text \in {"", "invoice"} : setUserContext(text)
    \/ handleClearAll
    \/ handleAnalyzeClick
    \/ \E call \in inFlight, returned \in BOOLEAN : Complete(call, returned)
    \/ OpenConfig
    \/ BackToPage
    \/ \E slot \in DOMAIN TypedKeys : \E value \in TypedKeys[slot] :
           handleApiKeyChange(slot, value)
    \/ handleSave
    \/ handleClearApiKeys

SpecPage == InitPage /\ [][NextPage]_vars

-----------------------------------------------------------------------------
(* Properties of the pages, under SpecPage *)

\* C16: at every moment the page is awaiting at most one analyzeDocument call
C16_AtMostOneInFlight == Cardinality(inFlight) <= 1

\* C19: a request that was in flight when a file was selected or all data
\* was cleared is not the result the page shows nor the one in sessionStorage
C19_NoStaleResult ==
    /\ analysisResult # Null => analysisResult.id \notin superseded
    /\ \A k \in DOMAIN sessionStorage :
           (k = "forensics_analysisResult" /\ sessionStorage[k] # Null)
               => sessionStorage[k].id \notin superseded

\* C18: localStorage has no entry besides the two of the configuration, the
\* stored configuration holds no key, and every stored key is the obfuscation
\* of a typed key and does not contain a typed key as typed or as trimmed
C18_NoPlaintextKey ==
    LET typed == {key \in UNION {TypedKeys[slot] : slot \in DOMAIN TypedKeys} :
                     Len(Trim(key)) > 0}
        keys == typed \cup {Trim(key) : key \in typed}
        Contains(text, key) ==
            \E i \in 0..(Len(text) - Len(key)) : SubSeq(text, i + 1, i + Len(key)) = key
        Plain(text) == \E key \in keys : Contains(text, key)
    IN  \A k \in DOMAIN localStorage :
            CASE k = "tamperCheck_apiKeys" ->
                     \A slot \in DOMAIN localStorage[k] :
                         /\ localStorage[k][slot] \in {obfuscate(key) : key \in keys}
                         /\ ~Plain(localStorage[k][slot])
              [] k = "tamperCheck_modelConfig" ->
                     "apiKeys" \in DOMAIN localStorage[k] =>
                         \A slot \in DOMAIN localStorage[k].apiKeys :
                             ~Plain(localStorage[k].apiKeys[slot])
              [] OTHER -> FALSE

\* C18: Save Configuration has stored the openai key typed with a trailing
\* blank, next to the configuration
C18_Witness ==
    /\ "tamperCheck_apiKeys" \in DOMAIN localStorage
    /\ "openai" \in DOMAIN localStorage["tamperCheck_apiKeys"]
    /\ deobfuscate(localStorage["tamperCheck_apiKeys"].openai) = <<"s", "k", "-", "A">>
    /\ "tamperCheck_modelConfig" \in DOMAIN localStorage

-----------------------------------------------------------------------------
(* Further properties of analyzeDocument, under Spec *)

C27_MessageFromStatusAlone ==
    (Answered /\ reply.kind = "http") =>
        /\ outcome = HandleReply(provider, [reply EXCEPT !.body = <<>>])
        /\ outcome = Error(InvalidApiKey) => reply.status = "401"
        /\ outcome = Error(RateLimited) => reply.status = "429"
        /\ outcome = Error(InvalidRequest) => reply.status = "400"

-----------------------------------------------------------------------------
(* Properties of the normalizer's result as it is displayed, under SpecNorm *)

\* C22: every narrative field of the result is a string: analysisLog,
\* summary, technicalSummary, coverageNotes, promptVersion, and finding and
\* location of each finding.
C22_NarrativeFieldsAreStrings ==
    (npc # "start" /\ ~IsThrow(result)) =>
        /\ \A k \in {"analysisLog", "summary", "technicalSummary", "coverageNotes",
                     "promptVersion"} : Get(result, k).t = "string"
        /\ \A i \in 1..Len(Get(result, "detailedFindings").v) :
               /\ Get(Get(result, "detailedFindings").v[i], "finding").t = "string"
               /\ Get(Get(result, "detailedFindings").v[i], "location").t = "string"

\* AnalysisResultDisplay({ result }): what rendering a result gives.  The
\* entry read from assessmentConfig, and the one each FindingCard and
\* FindingSummary reads from severityConfig, is dereferenced at once.
AnalysisResultDisplay(r) ==
    LET assessmentConfig ==
            [LIKELY_AUTHENTIC |-> "Likely Authentic",
             SUSPICIOUS_ANOMALIES_DETECTED |-> "Suspicious Anomalies Detected",
             LIKELY_TAMPERED |-> "Likely Tampered"]
        severityConfig ==
            [Low |-> "Low Risk", Medium |-> "Medium Risk", High |-> "High Risk"]
        findings == OrElse(Get(r, "detailedFindings"), Arr(<<>>))
    IN  IF ~InStrings(Get(r, "overallAssessment"), DOMAIN assessmentConfig)
        THEN Throw("TypeError")
        ELSE IF \E i \in 1..Len(findings.v) :
                    ~InStrings(Get(findings.v[i], "severity"), DOMAIN severityConfig)
             THEN Throw("TypeError")
             ELSE Str(assessmentConfig[Get(r, "overallAssessment").v])

\* C23: every result the normalizer returns is rendered: the display has an
\* entry for its overallAssessment and for the severity of each finding.
C23_EveryResultRenders ==
    (npc # "start" /\ ~IsThrow(result)) => ~IsThrow(AnalysisResultDisplay(result))

-----------------------------------------------------------------------------
(* Further properties of the pages, under SpecPage *)

\* C24: the page never holds an error and an analysis result together
C24_ErrorOrResultNotBoth == ~(error # Null /\ analysisResult # Null)

\* C25: in every state of the pages, what Save Configuration, Clear API Keys
\* and the config update of Clear All Data leave behind agrees: retrieveApiKeys()
\* then returns the non-blank keys of the configuration in memory, trimmed,
\* and nothing else
C25_StorageAgreesWithMemory ==
    LET KeysOf(memory) == IF "apiKeys" \in DOMAIN memory THEN memory.apiKeys
                          ELSE [k \in {} |-> <<>>]
        Agree(memory, storage) ==
            retrieveApiKeys(storage) =
                [k \in DOMAIN NonBlank(KeysOf(memory)) |-> Trim(KeysOf(memory)[k])]
        cleared == RemoveItem(localStorage, "tamperCheck_apiKeys")
        none == [k \in {} |-> <<>>]
    IN  /\ route = "/config" =>
              /\ Agree(draft, SaveSplit(draft, localStorage))
              /\ Agree(WithKeys(draft, none), cleared)
        /\ route = "/" =>
              Agree(WithKeys(config, none),
                    updateConfig(hookVersion, WithKeys(config, none), cleared))

\* C26: once no file read is pending, the preview and the stored file entries
\* are those of the selected file, and absent when no file is selected
C26_PreviewFollowsSelection ==
    (route = "/" /\ reads = {}) =>
        IF selectedFile = Null
        THEN /\ previewUrl = Null
             /\ "forensics_fileMetadata" \notin DOMAIN sessionStorage
             /\ "forensics_fileDataUrl" \notin DOMAIN sessionStorage
        ELSE /\ previewUrl = [dataUrl |-> selectedFile.name]
             /\ "forensics_fileMetadata" \in DOMAIN sessionStorage
             /\ "forensics_fileDataUrl" \in DOMAIN sessionStorage
             /\ sessionStorage["forensics_fileMetadata"] = [name |-> selectedFile.name]
             /\ sessionStorage["forensics_fileDataUrl"] = [dataUrl |-> selectedFile.name]

-----------------------------------------------------------------------------
(* The availability indicator of the configuration page, under SpecKey *)

\* isApiKeyAvailable(provider, configApiKey)
isApiKeyAvailable(p, key, e) ==
    IF key.t = "string" /\ Len(key.v) # 0 /\ Len(Trim(key.v)) > 0
    THEN validateApiKey(p, key)
    ELSE IF p = "azure-openai"
         THEN Present(EnvGet(e, "VITE_AZURE_OPENAI_API_KEY"))
                /\ Present(EnvGet(e, "VITE_AZURE_OPENAI_ENDPOINT"))
         ELSE p \in Providers /\ Present(EnvGet(e, EnvKeyName(p)))

\* C28: the indicator says available exactly when getEffectiveApiKey returns
\* a credential
C28_IndicatorMatchesResolver ==
    kpc = "resolved" =>
        (isApiKeyAvailable(provider, configApiKey, env) <=> Present(effectiveApiKey))

-----------------------------------------------------------------------------
(* ModelConfiguration: provider, model and parameters *)

\* PROVIDER_CONFIGS[provider].models
PROVIDER_CONFIGS(p) ==
    CASE p = "google" -> <<"gemini-2.5-flash", "gemini-2.5-flash-exp">>
      [] p = "openai" ->
            <<"gpt-5", "gpt-5-mini", "gpt-4.1-mini", "gpt-4.1-nano", "gpt-4o",
              "gpt-4o-mini", "o4-mini", "o3", "gpt-4-vision-preview", "model-router">>
      [] p = "azure-openai" ->
            <<"gpt-5", "gpt-5-mini", "gpt-4.1-mini", "gpt-4.1-nano", "gpt-4o",
              "gpt-4o-mini", "o4-mini", "o3", "gpt-4-vision-preview">>
      [] OTHER -> <<"gpt-5", "gpt-5-mini", "gpt-4o", "gpt-4o-mini", "o4-mini", "o3">>

\* getDefaultParametersForModel that answers with the gpt-4o defaults
getDefaultParametersForModel_Standard(modelName) == DEFAULT_CONFIG(1).parameters

\* getDefaultParametersForModel(modelName), over DEFAULT_PARAMETERS
getDefaultParametersForModel(modelName) ==
    LET standard == [temperature |-> 10, maxTokens |-> 4000 * Unit, topP |-> Unit,
                     frequencyPenalty |-> 0, presencePenalty |-> 0]
        modelType == getModelType(modelName)
    IN  [modelType |-> modelType,
         parameters |->
            CASE modelType = "gpt-5" ->
                   [temperature |-> 10, maxCompletionTokens |-> 4000 * Unit,
                    topP |-> Unit, frequencyPenalty |-> 0, presencePenalty |-> 0,
                    responseFormat |-> [type |-> "json_object"]]
              [] modelType = "o-series" ->
                   [temperature |-> 10, maxOutputTokens |-> 4000 * Unit,
                    reasoningEffort |-> "medium", reasoningStrategy |-> "default"]
              [] OTHER -> standard]

\* the providers whose models take parameters
ParameterProviders == {"openai", "azure-openai", "bedrock-openai"}

\* the draft with its provider, model and parameters replaced; parameters
\* that are undefined are a property JSON.stringify leaves out
Selected(p, model) ==
    LET kept == (DOMAIN draft) \ {"provider", "model", "parameters", "azureDeployment"}
        fields == kept \cup {"provider", "model"}
                    \cup (IF p \in ParameterProviders THEN {"parameters"} ELSE {})
                    \cup (IF p # "azure-openai" \/ "azureDeployment" \in DOMAIN draft
                          THEN {"azureDeployment"} ELSE {})
    IN  [k \in fields |->
            CASE k = "provider" -> p
              [] k = "model" -> model
              [] k = "parameters" -> getDefaultParametersForModel(model)
              [] k = "azureDeployment" ->
                    IF p = "azure-openai" THEN draft.azureDeployment ELSE ""
              [] OTHER -> draft[k]]

\* what every handler of the parameter section leaves alone
DraftOnly ==
    /\ UNCHANGED <<route, selectedFile, previewUrl, reads, analysisResult, userContext,
                   isLoading, error, config, inFlight, started, superseded,
                   localStorage, sessionStorage>>
    /\ OtherParts

\* handleProviderChange(provider)
handleProviderChange(p) ==
    /\ route = "/config"
    /\ draft' = Selected(p, PROVIDER_CONFIGS(p)[1])
    /\ DraftOnly

\* handleModelChange(model), for a model of the provider's list
handleModelChange(model) ==
    /\ route = "/config"
    /\ Includes(PROVIDER_CONFIGS(draft.provider), model)
    /\ draft' = LET changed == Selected(draft.provider, model)
                IN  IF "azureDeployment" \in DOMAIN draft
                    THEN [changed EXCEPT !.azureDeployment = draft.azureDeployment]
                    ELSE Without(changed, "azureDeployment")
    /\ DraftOnly

\* handleParameterChange(paramName, value) of ModelParameterControls, passed
\* to onChange; the controls are shown for a provider with parameters and
\* hold the parameters getAvailableParameters(modelType) names
handleParameterChange(paramName) ==
    /\ route = "/config"
    /\ draft.provider \in ParameterProviders
    /\ "parameters" \in DOMAIN draft
    /\ LET modelType == draft.parameters.modelType
           parameters == draft.parameters.parameters
           available ==
               CASE modelType \in {"gpt-4o", "legacy"} ->
                      {"temperature", "topP", "frequencyPenalty", "presencePenalty",
                       "maxTokens"}
                 [] modelType = "gpt-5" ->
                      {"temperature", "topP", "frequencyPenalty", "presencePenalty",
                       "maxCompletionTokens", "responseFormat"}
                 [] modelType = "o-series" ->
                      {"maxOutputTokens", "reasoningEffort", "reasoningStrategy"}
                 [] OTHER -> {"temperature", "topP", "frequencyPenalty", "presencePenalty"}
           value(k) == CASE paramName = "responseFormat" -> [type |-> "text"]
                         [] paramName = "reasoningEffort" -> "high"
                         [] OTHER -> 250
       IN  /\ paramName \in available
           /\ draft' = [draft EXCEPT !.parameters =
                           [modelType |-> modelType,
                            parameters |->
                               [k \in (DOMAIN parameters) \cup {paramName} |->
                                   IF k = paramName THEN value(k) ELSE parameters[k]]]]
    /\ DraftOnly

\* Reset to Defaults
ResetToDefaults ==
    /\ route = "/config"
    /\ draft.provider \in ParameterProviders
    /\ "parameters" \in DOMAIN draft
    /\ draft' = [draft EXCEPT !.parameters = getDefaultParametersForModel(draft.model)]
    /\ DraftOnly

\* the two pages with what writes provider, model and parameters of the
\* configuration, in memory and in localStorage; the context box stands for
\* whatever gives Clear All Data something to clear
NextConfig ==
    \/ setUserContext("invoice")
    \/ handleClearAll
    \/ OpenConfig
    \/ BackToPage
    \/ \E p \in Providers : handleProviderChange(p)
    \/ \E p \in Providers : \E i \in 1..Len(PROVIDER_CONFIGS(p)) :
           handleModelChange(PROVIDER_CONFIGS(p)[i])
    \/ \E paramName \in {"temperature", "responseFormat", "reasoningEffort"} :
           handleParameterChange(paramName)
    \/ ResetToDefaults
    \/ handleSave

SpecConfig == InitPage /\ [][NextConfig]_vars

-----------------------------------------------------------------------------
(* Properties of the configuration page, under SpecConfig *)

\* C29 as stated: whenever the configuration of the page has parameters,
\* their modelType is getModelType of its model
C29_ModelTypeFollowsModel ==
    (route = "/config" /\ "parameters" \in DOMAIN draft) =>
        draft.parameters.modelType = getModelType(draft.model)

\* C29 amended: so it is whenever the provider is one whose models take
\* parameters; the configuration the page loads for google may hold the
\* parameters of the hook's DEFAULT_CONFIG, which no request uses
C29_ModelTypeFollowsModelWhereUsed ==
    (route = "/config" /\ "parameters" \in DOMAIN draft) =>
        \/ draft.parameters.modelType = getModelType(draft.model)
        \/ /\ draft.provider = "google"
           /\ draft.parameters = DEFAULT_CONFIG(1).parameters

\* C29: a reasoning model is selected and one of its parameters was edited
C29_Witness ==
    /\ route = "/config"
    /\ draft.provider = "azure-openai"
    /\ draft.model = "o3"
    /\ "parameters" \in DOMAIN draft
    /\ draft.parameters.modelType = "o-series"
    /\ draft.parameters.parameters.reasoningEffort = "high"

-----------------------------------------------------------------------------
(* The loading state of DocumentForensics, under SpecPageFair *)

\* every call of analyzeDocument the page awaits settles
SpecPageFair ==
    SpecPage /\ WF_vars(\E call \in inFlight, returned \in BOOLEAN : Complete(call, returned))

=============================================================================
